---- MODULE Spec2Model ----
(***************************************************************************)
(* agent-deck: Gemini session tracking.                                    *)
(*                                                                         *)
(* Part I   - the instance's YOLO mode flag and its synchronisation with   *)
(*            the tmux session environment (GEMINI_YOLO_MODE), after the   *)
(*            design specification (sections 3, 4.1, 4.2) and the tests    *)
(*            in gemini_yolo_refinement_test.go.                           *)
(* Part II  - UpdateGeminiAnalyticsFromDisk and the file lookup it uses    *)
(*            (internal/session/gemini.go).                                *)
(* Part III - GetAvailableGeminiModels and its process-wide cache          *)
(*            (internal/session/gemini.go).                                *)
(* Part IV  - goroutines calling the two concurrently.                     *)
(* Part V   - the model selection dialog and the new session dialog        *)
(*            (GeminiModelDialog, NewDialog).                              *)
(***************************************************************************)
EXTENDS Integers, Sequences, FiniteSets, TLC

VARIABLES
    registry,        \* names of the instances the application tracks
    Status,          \* Status[i]: lifecycle status of instance i
    GeminiYoloMode,  \* GeminiYoloMode[i]: *bool, <<>> is nil, <<b>> points to b
    tmuxAlive,       \* tmuxAlive[i]: the tmux session of i exists
    tmuxEnv,         \* tmuxEnv[i]: GEMINI_YOLO_MODE in the session environment
    lastOp,          \* the last call made, with the state it found (history)
    roundTrip,       \* per instance: progress of set / attach / refresh (history)
    files,           \* the Gemini transcript files on disk
    analytics,       \* the GeminiSessionAnalytics struct being updated
    lastCall,        \* the last UpdateGeminiAnalyticsFromDisk call (history)
    geminiModelsCache, \* []string, <<>> is nil
    geminiModelsLast,  \* time.Time of the last fetch, 0 is the zero time
    now,             \* the wall clock, in ticks
    env,             \* GEMINI_MODELS_OVERRIDE and GOOGLE_API_KEY of the process
    lastGet,         \* the last GetAvailableGeminiModels call (history)
    confirmDialog,   \* the ConfirmDialog of the home screen
    geminiModelsCacheMu, \* sync.Mutex: 0 is unlocked, else the goroutine holding it
    callers,         \* goroutines in GetAvailableGeminiModels: where each one is
    refreshers,      \* goroutines in UpdateGeminiAnalyticsFromDisk: where each one is
    geminiModelDialog, \* the GeminiModelDialog struct
    inFlight,        \* its commands not yet run and messages not yet delivered
    lastSelected,    \* the modelSelectedMsg the last step produced, if any (history)
    newDialog,       \* the NewDialog struct
    lastKey          \* the last key NewDialog.Update handled, with the struct before (history)

vars == <<registry, Status, GeminiYoloMode, tmuxAlive, tmuxEnv, lastOp, roundTrip,
          files, analytics, lastCall,
          geminiModelsCache, geminiModelsLast, now, env, lastGet, confirmDialog,
          geminiModelsCacheMu, callers, refreshers,
          geminiModelDialog, inFlight, lastSelected, newDialog, lastKey>>

modeVars == <<registry, Status, GeminiYoloMode, tmuxAlive, tmuxEnv, lastOp, roundTrip>>

diskVars == <<files, analytics, lastCall>>

listVars == <<geminiModelsCache, geminiModelsLast, now, env, lastGet>>

modelDialogVars == <<geminiModelDialog, inFlight, lastSelected>>

newDialogVars == <<newDialog, lastKey>>

uiVars == <<confirmDialog, modelDialogVars, newDialogVars>>

procVars == <<geminiModelsCacheMu, callers, refreshers>>

\* What the actions of one part leave alone.
nonModeVars == <<diskVars, listVars, uiVars, procVars>>

nonDiskVars == <<modeVars, listVars, uiVars, procVars>>

nonListVars == <<modeVars, diskVars, uiVars, procVars>>

\* What the steps of the goroutines in GetAvailableGeminiModels leave alone.
nonCallerVars == <<modeVars, diskVars, uiVars, refreshers, lastGet, now>>

\* What the steps of the goroutines in UpdateGeminiAnalyticsFromDisk leave alone.
nonRefresherVars ==
    <<modeVars, listVars, uiVars, geminiModelsCacheMu, callers, files, lastCall>>

\* What the model selection dialog and its commands leave alone.
nonModelDialogVars == <<modeVars, diskVars, procVars, confirmDialog, newDialogVars>>

\* What the new session dialog leaves alone.
nonNewDialogVars ==
    <<modeVars, diskVars, listVars, procVars, confirmDialog, modelDialogVars>>

-----------------------------------------------------------------------------
(* Part I: instances, tmux sessions, the YOLO mode flag                    *)

NumInstances == 2

Instances == 1..NumInstances

\* *bool
nil == <<>>

Ptr(b) == <<b>>

\* Values GEMINI_YOLO_MODE can hold in a session environment; Unset: no such variable.
Unset == "<unset>"

EnvValues == {Unset, "true", "false", "1"}

\* The boolean rendered as the literal strings "true" / "false".
BoolStringSwapped(b) == IF b THEN "false" ELSE "true"

BoolString(b) == IF b THEN "true" ELSE "false"

\* tmux show-environment: an error for a missing session or a missing variable.
GetEnvironment(i) ==
    IF tmuxAlive[i] /\ tmuxEnv[i] # Unset
    THEN [val |-> tmuxEnv[i], err |-> FALSE]
    ELSE [val |-> "", err |-> TRUE]

\* tmux set-environment fails when the session does not exist.
SetEnvironmentFails(i) == ~tmuxAlive[i]

\* The flag detected from what GetEnvironment returned.
DetectYoloAnyValue(got) == ~got.err

DetectYolo(got) == ~got.err /\ got.val = "true"

TouchNever(i) == Status[i]

TouchBackToCreated(i) ==
    IF Status[i] = "Running" /\ ~tmuxAlive[i] THEN "Created" ELSE Status[i]

\* Discovering that the session is gone moves a Running instance to Stopped.
Touch(i) ==
    IF Status[i] = "Running" /\ ~tmuxAlive[i] THEN "Stopped" ELSE Status[i]

\* queried: the call read the session environment; yoloSwitch: the launch
\* command of a start or restart carried the mode switch.
NoOp == [op |-> "none", inst |-> 0, arg |-> FALSE, err |-> FALSE,
         envBefore |-> Unset, aliveBefore |-> FALSE, yoloBefore |-> nil,
         statusBefore |-> "Stopped", queried |-> FALSE, yoloSwitch |-> FALSE]

Op(name, i, arg, err) ==
    [op |-> name, inst |-> i, arg |-> arg, err |-> err,
     envBefore |-> tmuxEnv[i], aliveBefore |-> tmuxAlive[i],
     yoloBefore |-> GeminiYoloMode[i], statusBefore |-> Status[i],
     queried |-> FALSE, yoloSwitch |-> FALSE]

NoTrip == [stage |-> "none", v |-> FALSE]

\* The registry creates a record: status Created, flag not yet determined.
NewInstanceWithTool(i) ==
    /\ i \notin registry
    /\ registry' = registry \cup {i}
    /\ Status' = [Status EXCEPT ![i] = "Created"]
    /\ GeminiYoloMode' = [GeminiYoloMode EXCEPT ![i] = nil]
    /\ lastOp' = Op("NewInstanceWithTool", i, FALSE, FALSE)
    /\ roundTrip' = [roundTrip EXCEPT ![i] = NoTrip]
    /\ UNCHANGED <<tmuxAlive, tmuxEnv>>

\* The mode the launch command is built with: the flag, or the global
\* preference while the flag is nil.
LaunchModeGlobal(i, globalYolo) == globalYolo

LaunchMode(i, globalYolo) ==
    IF GeminiYoloMode[i] = nil THEN globalYolo ELSE GeminiYoloMode[i][1]

\* Start materialises the tmux session; the launch injects the environment variable.
Start(i, globalYolo) ==
    /\ i \in registry
    /\ Status[i] = "Created"
    /\ ~tmuxAlive[i]
    /\ tmuxAlive' = [tmuxAlive EXCEPT ![i] = TRUE]
    /\ tmuxEnv' = [tmuxEnv EXCEPT ![i] = BoolString(LaunchMode(i, globalYolo))]
    /\ Status' = [Status EXCEPT ![i] = "Running"]
    /\ lastOp' = [Op("Start", i, globalYolo, FALSE) EXCEPT
                      !.yoloSwitch = LaunchMode(i, globalYolo)]
    /\ roundTrip' = [roundTrip EXCEPT ![i] = NoTrip]
    /\ UNCHANGED <<registry, GeminiYoloMode>>

\* Kill tears the session down (idempotent) and the registry drops the record.
Kill(i) ==
    /\ i \in registry
    /\ tmuxAlive' = [tmuxAlive EXCEPT ![i] = FALSE]
    /\ tmuxEnv' = [tmuxEnv EXCEPT ![i] = Unset]
    /\ registry' = registry \ {i}
    /\ Status' = [Status EXCEPT ![i] = "Stopped"]
    /\ GeminiYoloMode' = [GeminiYoloMode EXCEPT ![i] = nil]
    /\ lastOp' = Op("Kill", i, FALSE, FALSE)
    /\ roundTrip' = [roundTrip EXCEPT ![i] = NoTrip]

\* The session is killed from outside the application.
ExternalKill(i) ==
    /\ tmuxAlive[i]
    /\ tmuxAlive' = [tmuxAlive EXCEPT ![i] = FALSE]
    /\ tmuxEnv' = [tmuxEnv EXCEPT ![i] = Unset]
    /\ lastOp' = Op("ExternalKill", i, FALSE, FALSE)
    /\ roundTrip' = [roundTrip EXCEPT ![i] = NoTrip]
    /\ UNCHANGED <<registry, Status, GeminiYoloMode>>

\* The variable is changed in the session environment by someone else
\* (tmuxSess.SetEnvironment in the test, a previous session, the user).
ExternalSetEnvironment(i, val) ==
    /\ tmuxAlive[i]
    /\ tmuxEnv[i] # val
    /\ tmuxEnv' = [tmuxEnv EXCEPT ![i] = val]
    /\ lastOp' = Op("ExternalSetEnvironment", i, FALSE, FALSE)
    /\ roundTrip' = [roundTrip EXCEPT ![i] = NoTrip]
    /\ UNCHANGED <<registry, Status, GeminiYoloMode, tmuxAlive>>

\* A variant that gives up on the adapter error before touching the struct.
SetGeminiYoloModePessimistic(i, enabled) ==
    /\ i \in registry
    /\ GeminiYoloMode' = IF SetEnvironmentFails(i) THEN GeminiYoloMode
                         ELSE [GeminiYoloMode EXCEPT ![i] = Ptr(enabled)]
    /\ tmuxEnv' = IF SetEnvironmentFails(i) THEN tmuxEnv
                  ELSE [tmuxEnv EXCEPT ![i] = BoolString(enabled)]
    /\ Status' = [Status EXCEPT ![i] = Touch(i)]
    /\ lastOp' = Op("SetGeminiYoloMode", i, enabled, SetEnvironmentFails(i))
    /\ roundTrip' = [roundTrip EXCEPT ![i] =
                        IF tmuxAlive[i] THEN [stage |-> "set", v |-> enabled]
                        ELSE NoTrip]
    /\ UNCHANGED <<registry, tmuxAlive>>

\* SetGeminiYoloMode(enabled): set the struct field, then SetEnvironment with
\* "true" / "false"; an adapter error is returned, the field stays set.
SetGeminiYoloMode(i, enabled) ==
    /\ i \in registry
    /\ GeminiYoloMode' = [GeminiYoloMode EXCEPT ![i] = Ptr(enabled)]
    /\ tmuxEnv' = IF SetEnvironmentFails(i) THEN tmuxEnv
                  ELSE [tmuxEnv EXCEPT ![i] = BoolString(enabled)]
    /\ Status' = [Status EXCEPT ![i] = Touch(i)]
    /\ lastOp' = Op("SetGeminiYoloMode", i, enabled, SetEnvironmentFails(i))
    /\ roundTrip' = [roundTrip EXCEPT ![i] =
                        IF tmuxAlive[i] THEN [stage |-> "set", v |-> enabled]
                        ELSE NoTrip]
    /\ UNCHANGED <<registry, tmuxAlive>>

RefreshedFlagUnknownOnError(flag, got) ==
    IF flag = nil /\ ~got.err THEN Ptr(DetectYolo(got)) ELSE flag

RefreshedFlagAlways(flag, got) == Ptr(DetectYolo(got))

\* The flag after a refresh, given the answer of GetEnvironment: a nil flag
\* becomes true on "true" and false on anything else, absence and error
\* included; a flag that is set is kept.
RefreshedFlag(flag, got) ==
    IF flag = nil THEN Ptr(DetectYolo(got)) ELSE flag

\* UpdateGeminiSession: while the flag is nil, detect it from the session environment.
UpdateGeminiSession(i) ==
    /\ i \in registry
    /\ GeminiYoloMode' = [GeminiYoloMode EXCEPT ![i] =
                             RefreshedFlag(GeminiYoloMode[i], GetEnvironment(i))]
    /\ Status' = [Status EXCEPT ![i] = Touch(i)]
    /\ lastOp' = [Op("UpdateGeminiSession", i, FALSE,
                      GeminiYoloMode[i] = nil /\ GetEnvironment(i).err) EXCEPT
                      !.queried = (GeminiYoloMode[i] = nil)]
    /\ roundTrip' = [roundTrip EXCEPT ![i] =
                        IF roundTrip[i].stage = "attached"
                        THEN [roundTrip[i] EXCEPT !.stage = "refreshed"]
                        ELSE NoTrip]
    /\ UNCHANGED <<registry, tmuxAlive, tmuxEnv>>

\* The application restarts and attaches to the session again: the record is
\* rebuilt with the flag not yet determined; the tmux session is untouched.
Attach(i) ==
    /\ i \in registry
    /\ Status[i] = "Running"
    /\ GeminiYoloMode' = [GeminiYoloMode EXCEPT ![i] = nil]
    /\ lastOp' = Op("Attach", i, FALSE, FALSE)
    /\ roundTrip' = [roundTrip EXCEPT ![i] =
                        IF roundTrip[i].stage = "set"
                        THEN [roundTrip[i] EXCEPT !.stage = "attached"]
                        ELSE NoTrip]
    /\ UNCHANGED <<registry, Status, tmuxAlive, tmuxEnv>>

\* Restart: the existing tmux session is killed and a new one is started at
\* once with a freshly built launch command; when the session turns out to be
\* gone, the instance is found Stopped and nothing is launched.
Restart(i, globalYolo) ==
    /\ i \in registry
    /\ IF Status[i] = "Running" /\ tmuxAlive[i]
       THEN /\ tmuxEnv' = [tmuxEnv EXCEPT ![i] = BoolString(LaunchMode(i, globalYolo))]
            /\ lastOp' = [Op("Restart", i, globalYolo, FALSE) EXCEPT
                              !.yoloSwitch = LaunchMode(i, globalYolo)]
            /\ UNCHANGED Status
       ELSE /\ Status' = [Status EXCEPT ![i] = Touch(i)]
            /\ lastOp' = Op("Restart", i, globalYolo, TRUE)
            /\ UNCHANGED tmuxEnv
    /\ roundTrip' = [roundTrip EXCEPT ![i] = NoTrip]
    /\ UNCHANGED <<registry, GeminiYoloMode, tmuxAlive>>

\* The restart confirmed from the mode-toggle dialog: the mode change is
\* applied (SetGeminiYoloMode) and the session restarted, the launch command
\* being built from the flag just set.
YoloRestart(i, enabled) ==
    /\ i \in registry
    /\ GeminiYoloMode' = [GeminiYoloMode EXCEPT ![i] = Ptr(enabled)]
    /\ IF Status[i] = "Running" /\ tmuxAlive[i]
       THEN /\ tmuxEnv' = [tmuxEnv EXCEPT ![i] = BoolString(enabled)]
            /\ lastOp' = [Op("YoloRestart", i, enabled, FALSE) EXCEPT
                              !.yoloSwitch = enabled]
            /\ UNCHANGED Status
       ELSE /\ Status' = [Status EXCEPT ![i] = Touch(i)]
            /\ lastOp' = Op("YoloRestart", i, enabled, TRUE)
            /\ UNCHANGED tmuxEnv
    /\ roundTrip' = [roundTrip EXCEPT ![i] = NoTrip]
    /\ UNCHANGED <<registry, tmuxAlive>>

\* ConfirmDialog: NewConfirmDialog, the zero value; targetID 0 is "".
NewConfirmDialog ==
    [visible |-> FALSE, confirmType |-> "ConfirmDeleteSession", targetID |-> 0,
     yoloEnabled |-> FALSE]

ShowDeleteSession(sessionID) ==
    /\ confirmDialog' = [confirmDialog EXCEPT !.visible = TRUE,
                                              !.confirmType = "ConfirmDeleteSession",
                                              !.targetID = sessionID]

ShowRestart(sessionID) ==
    /\ confirmDialog' = [confirmDialog EXCEPT !.visible = TRUE,
                                              !.confirmType = "ConfirmRestart",
                                              !.targetID = sessionID]

ShowYoloRestart(sessionID, yoloEnabled) ==
    /\ confirmDialog' = [confirmDialog EXCEPT !.visible = TRUE,
                                              !.confirmType = "ConfirmYoloRestart",
                                              !.targetID = sessionID,
                                              !.yoloEnabled = yoloEnabled]

IsYoloEnabled(c) == c.yoloEnabled

Hide ==
    /\ confirmDialog' = [confirmDialog EXCEPT !.visible = FALSE, !.targetID = 0]

\* The home screen opens a dialog for a session of the list while none is open.
OpenConfirm(i) ==
    /\ ~confirmDialog.visible
    /\ i \in registry
    /\ \/ ShowDeleteSession(i)
       \/ ShowRestart(i)
       \/ \E yoloEnabled \in BOOLEAN : ShowYoloRestart(i, yoloEnabled)
    /\ UNCHANGED <<modeVars, diskVars, listVars, procVars>>
    /\ UNCHANGED <<modelDialogVars, newDialogVars>>

\* The dialog is dismissed ("n", esc).
CancelConfirm ==
    /\ confirmDialog.visible
    /\ Hide
    /\ UNCHANGED <<modeVars, diskVars, listVars, procVars>>
    /\ UNCHANGED <<modelDialogVars, newDialogVars>>

\* handleConfirmDialogKey on "y": the confirmed action is carried out on the
\* target and the dialog hidden.
HandleConfirm(globalYolo) ==
    /\ confirmDialog.visible
    /\ Hide
    /\ CASE confirmDialog.confirmType = "ConfirmDeleteSession" ->
               Kill(confirmDialog.targetID)
         [] confirmDialog.confirmType = "ConfirmRestart" ->
               Restart(confirmDialog.targetID, globalYolo)
         [] confirmDialog.confirmType = "ConfirmYoloRestart" ->
               YoloRestart(confirmDialog.targetID, IsYoloEnabled(confirmDialog))
    /\ UNCHANGED <<diskVars, listVars, procVars, modelDialogVars, newDialogVars>>

-----------------------------------------------------------------------------
(* Part II: transcripts on disk and UpdateGeminiAnalyticsFromDisk          *)

MaxTime == 2

MaxMessages == 2

\* len(sessionID) < 8, sessionID[:8]
IDPrefixLen == 8

\* A session ID is a sequence of characters.
SessionA == <<1, 1, 1, 1, 1, 1, 1, 1, 2>>

ShortID == <<1, 1, 1, 1, 1, 1, 1>>

\* Timestamp strings of a transcript, by what time.Parse makes of them:
\*   "offset"  2025-12-26T15:09:00+01:00     RFC3339 only
\*   "millisZ" 2025-12-26T15:09:00.123Z      RFC3339 and 2006-01-02T15:04:05.999Z
\*   "bad"     anything else, the empty string included
\* t is the instant written, a positive number; the zero time.Time is 0.
Timestamps ==
    {[layout |-> "bad", t |-> 0], [layout |-> "offset", t |-> 1],
     [layout |-> "millisZ", t |-> 2]}

\* time.Parse(layout, ts): the instant, or the zero time with an error.
TimeParseNeverZero(layout, ts) ==
    IF \/ layout = "RFC3339" /\ ts.layout \in {"offset", "millisZ"}
       \/ layout = "2006-01-02T15:04:05.999Z" /\ ts.layout = "millisZ"
    THEN ts.t
    ELSE 1

TimeParse(layout, ts) ==
    IF \/ layout = "RFC3339" /\ ts.layout \in {"offset", "millisZ"}
       \/ layout = "2006-01-02T15:04:05.999Z" /\ ts.layout = "millisZ"
    THEN ts.t
    ELSE 0

\* Lines 362-365 and 367-370: RFC3339 first, the millisecond layout when that
\* left the zero time.
ParseTimestamp(ts) ==
    LET first == TimeParse("RFC3339", ts)
    IN  IF first = 0 THEN TimeParse("2006-01-02T15:04:05.999Z", ts) ELSE first

\* Lines 187-197: RFC3339 first, the millisecond layout when that returned an
\* error (time.Parse returns the zero time exactly when it returns an error
\* for the timestamps above).
ParseTimestampOnError(ts) ==
    IF TimeParse("RFC3339", ts) = 0
    THEN TimeParse("2006-01-02T15:04:05.999Z", ts)
    ELSE TimeParse("RFC3339", ts)

\* The messages of a transcript: type, model and tokens.
MessageTypes == {"gemini", "user"}

ModelNames == {"", "m1", "m2"}

TokenCounts == {<<1, 2>>, <<2, 1>>}

Messages ==
    {[type |-> ty, model |-> mo, input |-> tk[1], output |-> tk[2]] :
        ty \in MessageTypes, mo \in ModelNames, tk \in TokenCounts}

\* What a session file holds: ok is whether json.Unmarshal accepts it.
Malformed ==
    [ok |-> FALSE, startTime |-> [layout |-> "bad", t |-> 0],
     lastUpdated |-> [layout |-> "bad", t |-> 0], messages |-> <<>>]

Transcript(start, last, msgs) ==
    [ok |-> TRUE, startTime |-> start, lastUpdated |-> last, messages |-> msgs]

\* GeminiSessionAnalytics; LastFileModTime 0 is the zero time.
ZeroAnalytics ==
    [StartTime |-> 0, LastActive |-> 0, Duration |-> 0, InputTokens |-> 0,
     OutputTokens |-> 0, TotalTurns |-> 0, Model |-> "", CurrentContextTokens |-> 0,
     LastFileModTime |-> 0]

\* The files: <<d, k>> is the k-th name (in name order) that can exist in the
\* chats directory of project hash d under ~/.gemini/tmp.
FileIds == {<<1, 1>>, <<1, 2>>, <<1, 3>>, <<2, 1>>}

ProjectDirs == {f[1] : f \in FileIds}

NoFile ==
    [exists |-> FALSE, id8 |-> <<>>, mtime |-> 0, readable |-> FALSE,
     content |-> Malformed]

NoFiles == [f \in FileIds |-> NoFile]

\* The empty path "".
NoPath == <<>>

\* HashProjectPath: the project hash directory of a working directory; 0 is a
\* hash no directory under ~/.gemini/tmp has (the directory moved).
HashProjectPath(projectPath) ==
    CASE projectPath = "/work" -> 1
      [] projectPath = "/other" -> 2
      [] OTHER -> 0

GetGeminiSessionsDir(projectPath) == HashProjectPath(projectPath)

\* filepath.Glob(dir/session-*-<id8>.json): the matching names, sorted.
RECURSIVE SortedNames(_)
SortedNames(S) ==
    IF S = {} THEN <<>>
    ELSE LET f == CHOOSE x \in S : \A y \in S : x[1] < y[1] \/ (x[1] = y[1] /\ x[2] <= y[2])
         IN  <<f>> \o SortedNames(S \ {f})

Glob(dir, id8) ==
    SortedNames({f \in FileIds : f[1] = dir /\ files[f].exists /\ files[f].id8 = id8})

\* The loop of findNewestFile: a later file wins only when strictly newer.
RECURSIVE NewestLoopOldest(_, _, _)
NewestLoopOldest(matched, newestFile, newestTime) ==
    IF matched = <<>> THEN newestFile
    ELSE LET file == Head(matched)
         IN  IF newestFile = NoPath \/ files[file].mtime < newestTime
             THEN NewestLoopOldest(Tail(matched), file, files[file].mtime)
             ELSE NewestLoopOldest(Tail(matched), newestFile, newestTime)

RECURSIVE NewestLoop(_, _, _)
NewestLoop(matched, newestFile, newestTime) ==
    IF matched = <<>> THEN newestFile
    ELSE LET file == Head(matched)
         IN  IF files[file].mtime > newestTime
             THEN NewestLoop(Tail(matched), file, files[file].mtime)
             ELSE NewestLoop(Tail(matched), newestFile, newestTime)

findNewestFile(dir, id8) ==
    LET matched == Glob(dir, id8)
    IN  IF Len(matched) = 0 THEN NoPath
        ELSE IF Len(matched) = 1 THEN matched[1]
        ELSE NewestLoop(matched, NoPath, 0)

\* The loop of findGeminiSessionInAllProjects over the project directories.
RECURSIVE AllProjectsLoopFirst(_, _, _, _)
AllProjectsLoopFirst(entries, id8, newestFile, newestTime) ==
    IF entries = <<>> THEN newestFile
    ELSE LET file == findNewestFile(Head(entries), id8)
         IN  IF file # NoPath THEN file
             ELSE AllProjectsLoopFirst(Tail(entries), id8, newestFile, newestTime)

RECURSIVE AllProjectsLoop(_, _, _, _)
AllProjectsLoop(entries, id8, newestFile, newestTime) ==
    IF entries = <<>> THEN newestFile
    ELSE LET file == findNewestFile(Head(entries), id8)
         IN  IF file # NoPath /\ files[file].mtime > newestTime
             THEN AllProjectsLoop(Tail(entries), id8, file, files[file].mtime)
             ELSE AllProjectsLoop(Tail(entries), id8, newestFile, newestTime)

RECURSIVE SortedDirs(_)
SortedDirs(S) ==
    IF S = {} THEN <<>>
    ELSE LET d == CHOOSE x \in S : \A y \in S : x <= y
         IN  <<d>> \o SortedDirs(S \ {d})

findGeminiSessionInAllProjects(sessionID) ==
    IF Len(sessionID) < IDPrefixLen THEN NoPath
    ELSE AllProjectsLoop(SortedDirs(ProjectDirs), SubSeq(sessionID, 1, IDPrefixLen),
                         NoPath, 0)

\* Lines 311-320: the expected directory first, every project only after that.
LocateNewestAnywhere(projectPath, sessionID) == findGeminiSessionInAllProjects(sessionID)

Locate(projectPath, sessionID) ==
    LET latestFile == findNewestFile(GetGeminiSessionsDir(projectPath),
                                     SubSeq(sessionID, 1, IDPrefixLen))
    IN  IF latestFile = NoPath THEN findGeminiSessionInAllProjects(sessionID)
        ELSE latestFile

\* The filesystem accesses of the same code, as <<call, target>> pairs.
\* findNewestFile globs the directory and stats every match when there are several.
findNewestFileIO(dir, id8) ==
    LET matched == Glob(dir, id8)
    IN  {<<"Glob", dir>>} \cup
        (IF Len(matched) > 1 THEN {<<"Stat", matched[k]>> : k \in 1..Len(matched)}
         ELSE {})

\* findGeminiSessionInAllProjects lists ~/.gemini/tmp, runs findNewestFile in
\* every project directory and stats what each returned.
findGeminiSessionInAllProjectsIO(sessionID) ==
    IF Len(sessionID) < IDPrefixLen THEN {}
    ELSE LET id8 == SubSeq(sessionID, 1, IDPrefixLen)
         IN  {<<"ReadDir", "tmp">>} \cup
             UNION {findNewestFileIO(d, id8) \cup
                    (IF findNewestFile(d, id8) # NoPath
                     THEN {<<"Stat", findNewestFile(d, id8)>>} ELSE {}) :
                    d \in ProjectDirs}

\* Lines 311-320: EvalSymlinks in HashProjectPath, the glob of the expected
\* directory, the scan of every project when that found nothing.
LocateIO(projectPath, sessionID) ==
    LET dir == GetGeminiSessionsDir(projectPath)
        id8 == SubSeq(sessionID, 1, IDPrefixLen)
    IN  {<<"EvalSymlinks", projectPath>>} \cup findNewestFileIO(dir, id8) \cup
        (IF findNewestFile(dir, id8) = NoPath
         THEN findGeminiSessionInAllProjectsIO(sessionID) ELSE {})

\* Line 328: the modification time check before parsing.
CacheHitInverted(a, mtime) == a.LastFileModTime # 0 /\ mtime # a.LastFileModTime

CacheHit(a, mtime) == a.LastFileModTime # 0 /\ mtime = a.LastFileModTime

\* Lines 385-400, one message of the loop.
AddMessageAnyType(a, msg) ==
    [a EXCEPT !.InputTokens = @ + msg.input,
              !.OutputTokens = @ + msg.output,
              !.TotalTurns = @ + 1,
              !.Model = IF msg.model # "" THEN msg.model ELSE @,
              !.CurrentContextTokens = msg.input]

AddMessage(a, msg) ==
    IF msg.type = "gemini"
    THEN [a EXCEPT !.InputTokens = @ + msg.input,
                   !.OutputTokens = @ + msg.output,
                   !.TotalTurns = @ + 1,
                   !.Model = IF msg.model # "" THEN msg.model ELSE @,
                   !.CurrentContextTokens = msg.input]
    ELSE a

RECURSIVE Accumulate(_, _)
Accumulate(a, msgs) ==
    IF msgs = <<>> THEN a ELSE Accumulate(AddMessage(a, Head(msgs)), Tail(msgs))

\* Lines 356-400: what a parsed session leaves in the struct.
StoreSessionKeepModTime(a, session, mtime) ==
    LET startTime == ParseTimestamp(session.startTime)
        lastUpdated == ParseTimestamp(session.lastUpdated)
    IN  Accumulate([a EXCEPT !.StartTime = startTime,
                             !.LastActive = lastUpdated,
                             !.Duration = IF startTime # 0 /\ lastUpdated # 0
                                          THEN lastUpdated - startTime ELSE @,
                             !.InputTokens = 0,
                             !.OutputTokens = 0,
                             !.TotalTurns = 0,
                             !.Model = ""],
                   session.messages)

StoreSession(a, session, mtime) ==
    LET startTime == ParseTimestamp(session.startTime)
        lastUpdated == ParseTimestamp(session.lastUpdated)
    IN  Accumulate([a EXCEPT !.LastFileModTime = mtime,
                             !.StartTime = startTime,
                             !.LastActive = lastUpdated,
                             !.Duration = IF startTime # 0 /\ lastUpdated # 0
                                          THEN lastUpdated - startTime ELSE @,
                             !.InputTokens = 0,
                             !.OutputTokens = 0,
                             !.TotalTurns = 0,
                             !.Model = ""],
                   session.messages)

\* What the call does on a read or parse failure: nothing (lines 333-354).
OnFailureClear(a) == ZeroAnalytics

OnFailure(a) == a

\* What the call does when no session file is found: nothing (lines 322-324).
OnNotFoundClear(a) == ZeroAnalytics

OnNotFound(a) == a

NoCall ==
    [op |-> "none", projectPath |-> "", sessionID |-> <<>>, err |-> "",
     file |-> NoPath, read |-> FALSE, parsed |-> FALSE, before |-> ZeroAnalytics,
     prevCalled |-> FALSE, prevErr |-> "", prevParsed |-> FALSE, io |-> {}]

\* The record of a call: what it returned and did, the struct it found, the
\* filesystem accesses it made, and how the call right before it ended when
\* that one had the same arguments and no file was modified in between.
Call(projectPath, sessionID, err, file, read, parsed, io) ==
    LET same == /\ lastCall.op = "UpdateGeminiAnalyticsFromDisk"
                /\ lastCall.projectPath = projectPath
                /\ lastCall.sessionID = sessionID
    IN  [op |-> "UpdateGeminiAnalyticsFromDisk", projectPath |-> projectPath,
         sessionID |-> sessionID, err |-> err, file |-> file, read |-> read,
         parsed |-> parsed, before |-> analytics,
         prevCalled |-> same,
         prevErr |-> IF same THEN lastCall.err ELSE "",
         prevParsed |-> IF same THEN lastCall.parsed ELSE FALSE,
         io |-> io]

\* UpdateGeminiAnalyticsFromDisk(projectPath, sessionID, analytics)
UpdateGeminiAnalyticsFromDisk(projectPath, sessionID) ==
    /\ UNCHANGED files
    /\ IF Len(sessionID) < IDPrefixLen
       THEN /\ lastCall' = Call(projectPath, sessionID, "invalid session ID",
                                NoPath, FALSE, FALSE, {})
            /\ UNCHANGED analytics
       ELSE LET latestFile == Locate(projectPath, sessionID)
                located == LocateIO(projectPath, sessionID)
                stat == located \cup {<<"Stat", latestFile>>}
                readFile == stat \cup {<<"ReadFile", latestFile>>}
            IN  IF latestFile = NoPath
                THEN /\ lastCall' = Call(projectPath, sessionID, "session file not found",
                                         NoPath, FALSE, FALSE, located)
                     /\ analytics' = OnNotFound(analytics)
                ELSE IF CacheHit(analytics, files[latestFile].mtime)
                THEN /\ lastCall' = Call(projectPath, sessionID, "", latestFile,
                                         FALSE, FALSE, stat)
                     /\ UNCHANGED analytics
                ELSE IF ~files[latestFile].readable
                THEN /\ lastCall' = Call(projectPath, sessionID,
                                         "failed to read session file", latestFile,
                                         TRUE, FALSE, readFile)
                     /\ analytics' = OnFailure(analytics)
                ELSE IF ~files[latestFile].content.ok
                THEN /\ lastCall' = Call(projectPath, sessionID,
                                         "failed to parse session for analytics",
                                         latestFile, TRUE, TRUE, readFile)
                     /\ analytics' = OnFailure(analytics)
                ELSE /\ lastCall' = Call(projectPath, sessionID, "", latestFile,
                                         TRUE, TRUE, readFile)
                     /\ analytics' = StoreSession(analytics, files[latestFile].content,
                                                  files[latestFile].mtime)

\* The Gemini CLI (or anyone) writes a session file: new content, new mtime.
WriteFile(f, id8, content, mtime) ==
    /\ files' = [files EXCEPT ![f] =
                    [exists |-> TRUE, id8 |-> id8, mtime |-> mtime,
                     readable |-> IF files[f].exists THEN files[f].readable ELSE TRUE,
                     content |-> content]]
    /\ files' # files
    /\ lastCall' = NoCall
    /\ UNCHANGED analytics

\* The permissions of a file change; its modification time does not.
Chmod(f) ==
    /\ files[f].exists
    /\ files' = [files EXCEPT ![f].readable = ~@]
    /\ lastCall' = NoCall
    /\ UNCHANGED analytics

\* A session file is deleted.
RemoveFile(f) ==
    /\ files[f].exists
    /\ files' = [files EXCEPT ![f] = NoFile]
    /\ lastCall' = NoCall
    /\ UNCHANGED analytics

\* parseGeminiSessionFile(filePath) on an existing file, and what it returned.
ZeroInfo == [StartTime |-> 0, LastUpdated |-> 0, MessageCount |-> 0]

ParseGeminiSessionFile(f) ==
    /\ files[f].exists
    /\ lastCall' =
          IF ~files[f].readable
          THEN [op |-> "parseGeminiSessionFile", file |-> f,
                err |-> "failed to read session file", info |-> ZeroInfo]
          ELSE IF ~files[f].content.ok
          THEN [op |-> "parseGeminiSessionFile", file |-> f,
                err |-> "failed to parse session", info |-> ZeroInfo]
          ELSE [op |-> "parseGeminiSessionFile", file |-> f, err |-> "",
                info |-> [StartTime |-> ParseTimestampOnError(files[f].content.startTime),
                          LastUpdated |-> ParseTimestampOnError(files[f].content.lastUpdated),
                          MessageCount |-> Len(files[f].content.messages)]]
    /\ UNCHANGED <<files, analytics>>

\* A call of findNewestFile(dir/session-*-<id8>.json) on its own, and what it returned.
FindNewestFile(dir, id8) ==
    /\ lastCall' = [op |-> "findNewestFile", dir |-> dir, id8 |-> id8,
                    file |-> findNewestFile(dir, id8)]
    /\ UNCHANGED <<files, analytics>>

\* parseGeminiSessionFile(filePath): the error, and the GeminiSessionInfo with
\* its Filename.
parseGeminiSessionFile(f) ==
    IF ~files[f].readable
    THEN [err |-> "failed to read session file", info |-> ZeroInfo]
    ELSE IF ~files[f].content.ok
    THEN [err |-> "failed to parse session", info |-> ZeroInfo]
    ELSE [err |-> "",
          info |-> [Filename |-> f,
                    StartTime |-> ParseTimestampOnError(files[f].content.startTime),
                    LastUpdated |-> ParseTimestampOnError(files[f].content.lastUpdated),
                    MessageCount |-> Len(files[f].content.messages)]]

\* Line 215: filepath.Glob(sessionsDir/session-*.json), in name order.
GlobSessions(dir) ==
    SortedNames({f \in FileIds : f[1] = dir /\ files[f].exists})

\* Lines 220-226: the loop, skipping the files that do not parse.
RECURSIVE ParseAllKeepFailed(_)
ParseAllKeepFailed(matched) ==
    IF matched = <<>> THEN <<>>
    ELSE <<parseGeminiSessionFile(Head(matched)).info>>
         \o ParseAllKeepFailed(Tail(matched))

RECURSIVE ParseAll(_)
ParseAll(matched) ==
    IF matched = <<>> THEN <<>>
    ELSE LET parsed == parseGeminiSessionFile(Head(matched))
         IN  (IF parsed.err # "" THEN <<>> ELSE <<parsed.info>>)
             \o ParseAll(Tail(matched))

\* Line 230: sessions[i].LastUpdated.After(sessions[j].LastUpdated)
LessByLastUpdated(a, b) == a.LastUpdated > b.LastUpdated

\* sort.Slice on a slice shorter than 12: insertion sort, each element moved
\* left past the elements it is less than.
RECURSIVE InsertSession(_, _)
InsertSession(sorted, x) ==
    IF sorted = <<>> THEN <<x>>
    ELSE IF LessByLastUpdated(x, sorted[Len(sorted)])
    THEN InsertSession(SubSeq(sorted, 1, Len(sorted) - 1), x) \o <<sorted[Len(sorted)]>>
    ELSE sorted \o <<x>>

RECURSIVE SortSessions(_, _)
SortSessions(sorted, rest) ==
    IF rest = <<>> THEN sorted
    ELSE SortSessions(InsertSession(sorted, Head(rest)), Tail(rest))

\* ListGeminiSessions(projectPath)
ListGeminiSessions(projectPath) ==
    /\ lastCall' = [op |-> "ListGeminiSessions", projectPath |-> projectPath,
                    err |-> "",
                    sessions |-> SortSessions(<<>>,
                        ParseAll(GlobSessions(GetGeminiSessionsDir(projectPath))))]
    /\ UNCHANGED <<files, analytics>>

-----------------------------------------------------------------------------
(* Part III: GetAvailableGeminiModels                                      *)

\* A string is a sequence of tokens: a blank, a comma, the prefix "models/"
\* or a name without blanks, commas and slashes.  <<>> is the empty string.
Rank(c) ==
    CASE c = " " -> 1
      [] c = "," -> 2
      [] c = "e1" -> 3
      [] c = "m1" -> 4
      [] c = "m2" -> 5
      [] c = "models/" -> 6
      [] OTHER -> 7

\* a < b as Go compares strings.
RECURSIVE Less(_, _)
Less(a, b) ==
    IF b = <<>> THEN FALSE
    ELSE IF a = <<>> THEN TRUE
    ELSE IF Head(a) # Head(b) THEN Rank(Head(a)) < Rank(Head(b))
    ELSE Less(Tail(a), Tail(b))

\* sort.Strings
RECURSIVE Insert(_, _)
Insert(x, sorted) ==
    IF sorted = <<>> THEN <<x>>
    ELSE IF Less(x, Head(sorted)) THEN <<x>> \o sorted
    ELSE <<Head(sorted)>> \o Insert(x, Tail(sorted))

RECURSIVE SortStrings(_)
SortStrings(list) ==
    IF list = <<>> THEN <<>> ELSE Insert(Head(list), SortStrings(Tail(list)))

\* strings.Split(s, ","): the pieces between the commas, one more than commas.
RECURSIVE Split(_)
Split(s) ==
    IF \A k \in 1..Len(s) : s[k] # "," THEN <<s>>
    ELSE LET k == CHOOSE j \in 1..Len(s) : s[j] = "," /\ \A h \in 1..(j - 1) : s[h] # ","
         IN  <<SubSeq(s, 1, k - 1)>> \o Split(SubSeq(s, k + 1, Len(s)))

\* strings.TrimSpace
TrimSpaceLeftOnly(s) ==
    IF \A k \in 1..Len(s) : s[k] = " " THEN <<>>
    ELSE LET first == CHOOSE j \in 1..Len(s) : s[j] # " " /\ \A h \in 1..(j - 1) : s[h] = " "
         IN  SubSeq(s, first, Len(s))

TrimSpace(s) ==
    IF \A k \in 1..Len(s) : s[k] = " " THEN <<>>
    ELSE LET first == CHOOSE j \in 1..Len(s) : s[j] # " " /\ \A h \in 1..(j - 1) : s[h] = " "
             last == CHOOSE j \in 1..Len(s) : s[j] # " " /\ \A h \in (j + 1)..Len(s) : s[h] = " "
         IN  SubSeq(s, first, last)

\* Lines 30-35: the override, split, trimmed and sorted.
ParseOverride(override) ==
    LET models == Split(override)
    IN  SortStrings([i \in 1..Len(models) |-> TrimSpace(models[i])])

\* Lines 49-58.
DefaultModels ==
    << <<"gemini-3-pro-preview">>, <<"gemini-3-flash-preview">>, <<"gemini-2.5-pro">>,
       <<"gemini-2.5-flash">>, <<"gemini-2.5-flash-lite">>, <<"gemini-2.0-flash">>,
       <<"gemini-1.5-flash">>, <<"gemini-1.5-pro">> >>

\* Lines 88-107: the short names of the models that support generateContent.
RECURSIVE GeneratingModels(_)
GeneratingModels(descriptors) ==
    IF descriptors = <<>> THEN <<>>
    ELSE LET m == Head(descriptors)
             name == IF m.name # <<>> /\ Head(m.name) = "models/" THEN Tail(m.name)
                     ELSE m.name
         IN  (IF "generateContent" \in m.methods THEN <<name>> ELSE <<>>)
             \o GeneratingModels(Tail(descriptors))

\* One hour, in ticks of the clock (a tick is half an hour).
Hour == 2

MaxClock == 4

\* time.Since(t)
TimeSince(t) == now - t

\* Line 42: the cache holds something and is less than an hour old.
CacheFresh(cache, last) == Len(cache) > 0 /\ TimeSince(last) < Hour

\* What the remote catalog does with a request: fail in one of four ways, or
\* answer with a list of model descriptors.
Descriptor(name, methods) == [name |-> name, methods |-> methods]

Catalogs ==
    { <<>>,
      << Descriptor(<<"models/", "e1">>, {"embedContent"}) >>,
      << Descriptor(<<"models/", "m1">>, {"generateContent"}) >>,
      << Descriptor(<<"models/", "m2">>, {"generateContent", "countTokens"}),
         Descriptor(<<"models/", "e1">>, {"embedContent"}),
         Descriptor(<<"m1">>, {"generateContent"}) >> }

FetchFailures ==
    {"failed to fetch models", "api returned status", "failed to read response",
     "failed to parse models"}

Responses ==
    {[err |-> e, models |-> <<>>] : e \in FetchFailures} \cup
    {[err |-> "", models |-> c] : c \in Catalogs}

NoEnv == [override |-> <<>>, apiKey |-> ""]

NoFetch == [done |-> FALSE, at |-> 0, models |-> <<>>]

NoGet ==
    [op |-> "none", result |-> <<>>, err |-> "", network |-> FALSE, response |-> "",
     prior |-> NoFetch, fetch |-> NoFetch, cacheBefore |-> <<>>, lastBefore |-> 0]

\* The record of a call: what it returned, whether it called the network and
\* how that ended, and the most recent successful fetch (when, which list)
\* before the call and after it, and the cache the call found.
Get(result, err, network, response, fetch) ==
    [op |-> "GetAvailableGeminiModels", result |-> result, err |-> err,
     network |-> network, response |-> response, prior |-> lastGet.fetch,
     fetch |-> fetch, cacheBefore |-> geminiModelsCache,
     lastBefore |-> geminiModelsLast]

\* Line 29: the override is used when it is not the empty string.
UseOverrideNever(override) == FALSE

UseOverride(override) == override # <<>>

\* What a failed fetch leaves in the cache: what was there (lines 62-86).
OnFetchErrorClear(cache) == <<>>

OnFetchError(cache) == cache

\* GetAvailableGeminiModels(), with what the network would answer.
GetAvailableGeminiModels(resp) ==
    /\ UNCHANGED <<now, env>>
    /\ IF UseOverride(env.override)
       THEN /\ lastGet' = Get(ParseOverride(env.override), "", FALSE, "", lastGet.fetch)
            /\ UNCHANGED <<geminiModelsCache, geminiModelsLast>>
       ELSE IF CacheFresh(geminiModelsCache, geminiModelsLast)
       THEN /\ lastGet' = Get(geminiModelsCache, "", FALSE, "", lastGet.fetch)
            /\ UNCHANGED <<geminiModelsCache, geminiModelsLast>>
       ELSE IF env.apiKey = ""
       THEN /\ lastGet' = Get(DefaultModels, "", FALSE, "", lastGet.fetch)
            /\ UNCHANGED <<geminiModelsCache, geminiModelsLast>>
       ELSE IF resp.err # ""
       THEN /\ lastGet' = Get(<<>>, resp.err, TRUE, resp.err, lastGet.fetch)
            /\ geminiModelsCache' = OnFetchError(geminiModelsCache)
            /\ UNCHANGED geminiModelsLast
       ELSE LET models == SortStrings(GeneratingModels(resp.models))
            IN  /\ lastGet' = Get(models, "", TRUE, "ok",
                                  [done |-> TRUE, at |-> now, models |-> models])
                /\ geminiModelsCache' = models
                /\ geminiModelsLast' = now

\* os.Setenv by the process or its tests.
Setenv(name, value) ==
    /\ env' = [env EXCEPT ![name] = value]
    /\ env' # env
    /\ lastGet' = [NoGet EXCEPT !.prior = lastGet.fetch, !.fetch = lastGet.fetch]
    /\ UNCHANGED <<geminiModelsCache, geminiModelsLast, now>>

\* Half an hour passes.
Tick ==
    /\ now < MaxClock
    /\ now' = now + 1
    /\ lastGet' = [NoGet EXCEPT !.prior = lastGet.fetch, !.fetch = lastGet.fetch]
    /\ UNCHANGED <<geminiModelsCache, geminiModelsLast, env>>

-----------------------------------------------------------------------------
(* Part IV: goroutines calling concurrently                                *)

NumCallers == 2

Callers == 1..NumCallers

\* A goroutine in GetAvailableGeminiModels: idle (not in a call), at Lock()
\* (line 38), in http.Get with the mutex held (line 62), or returned.
\* fetched: the call issued a request; blocked: the goroutine was waiting at
\* Lock() while the fetch of another one succeeded.
IdleCaller ==
    [pc |-> "idle", result |-> <<>>, err |-> "", fetched |-> FALSE, blocked |-> FALSE]

Returned(c, result, err) ==
    [callers[c] EXCEPT !.pc = "returned", !.result = result, !.err = err]

\* Lines 29-36: the override is read and answered without the mutex.
CallGetAvailableGeminiModels(c) ==
    /\ callers[c].pc = "idle"
    /\ callers' = [callers EXCEPT ![c] =
                      IF UseOverride(env.override)
                      THEN Returned(c, ParseOverride(env.override), "")
                      ELSE [IdleCaller EXCEPT !.pc = "lock"]]
    /\ UNCHANGED <<geminiModelsCacheMu, geminiModelsCache, geminiModelsLast, env>>

\* Lines 38-61: Lock() succeeds; a fresh cache or a missing key ends the call
\* (the deferred Unlock runs), otherwise the request is sent, mutex held.
LockAndCheckCache(c) ==
    /\ callers[c].pc = "lock"
    /\ geminiModelsCacheMu = 0
    /\ IF CacheFresh(geminiModelsCache, geminiModelsLast)
       THEN /\ callers' = [callers EXCEPT ![c] = Returned(c, geminiModelsCache, "")]
            /\ UNCHANGED geminiModelsCacheMu
       ELSE IF env.apiKey = ""
       THEN /\ callers' = [callers EXCEPT ![c] = Returned(c, DefaultModels, "")]
            /\ UNCHANGED geminiModelsCacheMu
       ELSE /\ callers' = [callers EXCEPT ![c].pc = "fetching", ![c].fetched = TRUE]
            /\ geminiModelsCacheMu' = c
    /\ UNCHANGED <<geminiModelsCache, geminiModelsLast, env>>

\* Lines 62-113: the request ends; an error returns, a list is filtered,
\* sorted and stored; the deferred Unlock runs.
FetchReturns(c, resp) ==
    /\ callers[c].pc = "fetching"
    /\ geminiModelsCacheMu = c
    /\ geminiModelsCacheMu' = 0
    /\ IF resp.err # ""
       THEN /\ callers' = [callers EXCEPT ![c] = Returned(c, <<>>, resp.err)]
            /\ geminiModelsCache' = OnFetchError(geminiModelsCache)
            /\ UNCHANGED geminiModelsLast
       ELSE LET models == SortStrings(GeneratingModels(resp.models))
            IN  /\ callers' = [d \in Callers |->
                                 IF d = c THEN Returned(c, models, "")
                                 ELSE IF callers[d].pc = "lock"
                                 THEN [callers[d] EXCEPT !.blocked = TRUE]
                                 ELSE callers[d]]
                /\ geminiModelsCache' = models
                /\ geminiModelsLast' = now
    /\ UNCHANGED env

\* The caller has its answer; the goroutine may call again.
CallerDone(c) ==
    /\ callers[c].pc = "returned"
    /\ callers' = [callers EXCEPT ![c] = IdleCaller]
    /\ UNCHANGED <<geminiModelsCacheMu, geminiModelsCache, geminiModelsLast, env>>

\* The environment of the process is set while no call is under way.
SetenvBetweenCalls(name, value) ==
    /\ \A c \in Callers : callers[c].pc = "idle"
    /\ env' = [env EXCEPT ![name] = value]
    /\ env' # env
    /\ UNCHANGED <<geminiModelsCacheMu, callers, geminiModelsCache, geminiModelsLast>>

NumRefreshers == 2

Refreshers == 1..NumRefreshers

\* A goroutine in UpdateGeminiAnalyticsFromDisk on the one analytics struct:
\* idle, parsed (the file is read into the local session), reset (mtime and
\* timestamps written), loop (counters reset, at message idx).
IdleRefresher ==
    [pc |-> "idle", session |-> Malformed, mtime |-> 0, idx |-> 0, err |-> ""]

\* Lines 307-354: validate, locate, stat, compare the fingerprint, read and
\* unmarshal.
RefreshBegin(r, projectPath, sessionID) ==
    /\ refreshers[r].pc = "idle"
    /\ LET latestFile == Locate(projectPath, sessionID)
           failed(e) == [IdleRefresher EXCEPT !.err = e]
       IN  refreshers' = [refreshers EXCEPT ![r] =
              IF Len(sessionID) < IDPrefixLen THEN failed("invalid session ID")
              ELSE IF latestFile = NoPath THEN failed("session file not found")
              ELSE IF CacheHit(analytics, files[latestFile].mtime) THEN IdleRefresher
              ELSE IF ~files[latestFile].readable
              THEN failed("failed to read session file")
              ELSE IF ~files[latestFile].content.ok
              THEN failed("failed to parse session for analytics")
              ELSE [pc |-> "parsed", session |-> files[latestFile].content,
                    mtime |-> files[latestFile].mtime, idx |-> 0, err |-> ""]]
    /\ UNCHANGED analytics

\* Lines 356-376: the fingerprint and the timestamps are written.
RefreshStoreTimes(r) ==
    /\ refreshers[r].pc = "parsed"
    /\ LET startTime == ParseTimestamp(refreshers[r].session.startTime)
           lastUpdated == ParseTimestamp(refreshers[r].session.lastUpdated)
       IN  analytics' = [analytics EXCEPT
                           !.LastFileModTime = refreshers[r].mtime,
                           !.StartTime = startTime,
                           !.LastActive = lastUpdated,
                           !.Duration = IF startTime # 0 /\ lastUpdated # 0
                                        THEN lastUpdated - startTime ELSE @]
    /\ refreshers' = [refreshers EXCEPT ![r].pc = "reset"]

\* Lines 379-382: the counters are reset.
RefreshReset(r) ==
    /\ refreshers[r].pc = "reset"
    /\ analytics' = [analytics EXCEPT !.InputTokens = 0, !.OutputTokens = 0,
                                      !.TotalTurns = 0, !.Model = ""]
    /\ refreshers' = [refreshers EXCEPT ![r].pc = "loop", ![r].idx = 1]

\* Lines 384-400: one round of the loop over the messages.
RefreshAddMessage(r) ==
    /\ refreshers[r].pc = "loop"
    /\ refreshers[r].idx <= Len(refreshers[r].session.messages)
    /\ analytics' = AddMessage(analytics, refreshers[r].session.messages[refreshers[r].idx])
    /\ refreshers' = [refreshers EXCEPT ![r].idx = @ + 1]

\* Line 402: the loop is over, the call returns nil.
RefreshReturn(r) ==
    /\ refreshers[r].pc = "loop"
    /\ refreshers[r].idx > Len(refreshers[r].session.messages)
    /\ refreshers' = [refreshers EXCEPT ![r] = IdleRefresher]
    /\ UNCHANGED analytics

\* One goroutine in UpdateGeminiAnalyticsFromDisk while the Gemini CLI writes
\* the transcript: os.Stat (line 327) and os.ReadFile (line 333) are two system
\* calls, and a write can land between them.  The goroutine is idle or at
\* "stat" (the stat is done, the file is not read yet).  Besides the locals
\* (file, mtime: latestFile and info.ModTime()) the record keeps, of the call
\* under way or the last one returned: outcome ("none", "not found", "hit",
\* "failed", "parsed"), raced (a write landed between its stat and its read),
\* stale (it parsed a file whose modification time was no longer the one its
\* stat saw), and second (the call before it was stale and nothing was written
\* since).
IdleReader ==
    [pc |-> "idle", file |-> NoPath, mtime |-> 0, outcome |-> "none",
     raced |-> FALSE, stale |-> FALSE, second |-> FALSE]

\* The shape of refreshers[r] before the goroutine's first call.
ReaderOf(r) ==
    IF refreshers[r] = IdleRefresher THEN IdleReader ELSE refreshers[r]

\* The modification time written to the fingerprint, of the one the stat saw
\* and the one the file has when it is read.
FingerprintAtRead(statMtime, readMtime) == readMtime

\* Lines 327, 357-359: info is the result of the os.Stat before the read.
Fingerprint(statMtime, readMtime) == statMtime

\* Lines 307-331: validate, locate, stat and compare the fingerprint.
StatRefresh(r, projectPath, sessionID) ==
    /\ ReaderOf(r).pc = "idle"
    /\ LET latestFile == Locate(projectPath, sessionID)
           began == [IdleReader EXCEPT !.second = ReaderOf(r).stale]
       IN  refreshers' = [refreshers EXCEPT ![r] =
              IF Len(sessionID) < IDPrefixLen \/ latestFile = NoPath
              THEN [began EXCEPT !.outcome = "not found"]
              ELSE IF CacheHit(analytics, files[latestFile].mtime)
              THEN [began EXCEPT !.outcome = "hit", !.file = latestFile,
                                 !.mtime = files[latestFile].mtime]
              ELSE [began EXCEPT !.pc = "stat", !.file = latestFile,
                                 !.mtime = files[latestFile].mtime]]
    /\ UNCHANGED <<files, analytics, lastCall>>

\* Lines 333-402: read, unmarshal and store.
ReadRefresh(r) ==
    /\ ReaderOf(r).pc = "stat"
    /\ LET me == ReaderOf(r)
           f == files[me.file]
           ok == f.exists /\ f.readable /\ f.content.ok
       IN  /\ analytics' = IF ok
                           THEN StoreSession(analytics, f.content,
                                             Fingerprint(me.mtime, f.mtime))
                           ELSE OnFailure(analytics)
           /\ refreshers' = [refreshers EXCEPT ![r] =
                  [me EXCEPT !.pc = "idle",
                             !.outcome = IF ok THEN "parsed" ELSE "failed",
                             !.stale = ok /\ me.raced /\ f.mtime # me.mtime]]
    /\ UNCHANGED <<files, lastCall>>

\* WriteFile while goroutine r may be between its stat and its read.
WriteFileDuringRefresh(r, f, id8, content, mtime) ==
    /\ WriteFile(f, id8, content, mtime)
    /\ refreshers' = [refreshers EXCEPT ![r] =
          [ReaderOf(r) EXCEPT !.raced = @ \/ ReaderOf(r).pc = "stat",
                              !.stale = FALSE,
                              !.second = FALSE]]

-----------------------------------------------------------------------------
(* Part V: the dialogs                                                     *)

\* The commands and messages of one dialog that may be pending at a time.
MaxInFlight == 2

\* NewGeminiModelDialog(): the zero struct.  models <<>> is nil, err "" is
\* nil; the cursor counts from 0 as in the code.
NewGeminiModelDialog ==
    [visible |-> FALSE, sessionID |-> "", models |-> <<>>, cursor |-> 0,
     err |-> "", loading |-> FALSE]

\* What is in flight: the command Show returned ("fetchCmd"), the message it
\* produced ("modelsFetchedMsg", with models and err), the command Enter
\* returned ("selectCmd", with the model it captured).  shown is the session
\* the dialog was showing when Enter was pressed (history).
FetchCmd ==
    [kind |-> "fetchCmd", models |-> <<>>, err |-> "", model |-> <<>>, shown |-> ""]

modelsFetchedMsg(models, err) ==
    [kind |-> "modelsFetchedMsg", models |-> models, err |-> err, model |-> <<>>,
     shown |-> ""]

SelectCmd(model, shown) ==
    [kind |-> "selectCmd", models |-> <<>>, err |-> "", model |-> model,
     shown |-> shown]

NoSelection == [kind |-> "none", sessionID |-> "", model |-> <<>>, shown |-> ""]

\* m.models[m.cursor] with the cursor outside the list: the runtime panics.
Panicked == [kind |-> "panic", sessionID |-> "", model |-> <<>>, shown |-> ""]

Without(seq, k) == SubSeq(seq, 1, k - 1) \o SubSeq(seq, k + 1, Len(seq))

\* Lines 479-491: Show(sessionID) and the command it returns.
GeminiModelDialogShow(sessionID) ==
    /\ lastSelected # Panicked
    /\ Len(inFlight) < MaxInFlight
    /\ geminiModelDialog' = [visible |-> TRUE, sessionID |-> sessionID,
                             models |-> <<>>, cursor |-> 0, err |-> "",
                             loading |-> TRUE]
    /\ inFlight' = Append(inFlight, FetchCmd)
    /\ lastSelected' = NoSelection
    /\ UNCHANGED listVars

\* Lines 487-490: the runtime runs the command of a Show.
RunFetchCmd(k, resp) ==
    /\ lastSelected # Panicked
    /\ k \in 1..Len(inFlight)
    /\ inFlight[k].kind = "fetchCmd"
    /\ GetAvailableGeminiModels(resp)
    /\ inFlight' = [inFlight EXCEPT ![k] = modelsFetchedMsg(lastGet'.result, lastGet'.err)]
    /\ lastSelected' = NoSelection
    /\ UNCHANGED geminiModelDialog

\* Lines 511-519: Update on a modelsFetchedMsg.
UpdateFetched(d, msg) ==
    IF ~d.visible THEN d
    ELSE IF msg.err # "" THEN [d EXCEPT !.loading = FALSE, !.err = msg.err]
    ELSE [d EXCEPT !.loading = FALSE, !.models = msg.models]

DeliverFetched(k) ==
    /\ lastSelected # Panicked
    /\ k \in 1..Len(inFlight)
    /\ inFlight[k].kind = "modelsFetchedMsg"
    /\ geminiModelDialog' = UpdateFetched(geminiModelDialog, inFlight[k])
    /\ inFlight' = Without(inFlight, k)
    /\ lastSelected' = NoSelection
    /\ UNCHANGED listVars

\* Lines 523-535: Update on esc, up, k, down, j and on keys it has no case for.
UpdateKey(d, key) ==
    IF ~d.visible THEN d
    ELSE IF key = "esc" THEN [d EXCEPT !.visible = FALSE]
    ELSE IF key \in {"up", "k"}
    THEN (IF d.cursor > 0 THEN [d EXCEPT !.cursor = @ - 1] ELSE d)
    ELSE IF key \in {"down", "j"}
    THEN (IF d.cursor < Len(d.models) - 1 THEN [d EXCEPT !.cursor = @ + 1] ELSE d)
    ELSE d

GeminiModelDialogKey(key) ==
    /\ lastSelected # Panicked
    /\ key # "enter"
    /\ geminiModelDialog' = UpdateKey(geminiModelDialog, key)
    /\ lastSelected' = NoSelection
    /\ UNCHANGED <<inFlight, listVars>>

\* Lines 537-544: Update on enter.  With a list, the model under the cursor
\* is taken, the dialog hidden and a command returned; the index expression
\* panics when the cursor is outside the list.
GeminiModelDialogEnter ==
    /\ lastSelected # Panicked
    /\ LET d == geminiModelDialog
       IN  IF ~d.visible \/ Len(d.models) = 0
           THEN /\ lastSelected' = NoSelection
                /\ UNCHANGED <<geminiModelDialog, inFlight>>
           ELSE IF d.cursor >= Len(d.models)
           THEN /\ lastSelected' = Panicked
                /\ UNCHANGED <<geminiModelDialog, inFlight>>
           ELSE /\ Len(inFlight) < MaxInFlight
                /\ geminiModelDialog' = [d EXCEPT !.visible = FALSE]
                /\ inFlight' = Append(inFlight,
                                      SelectCmd(d.models[d.cursor + 1], d.sessionID))
                /\ lastSelected' = NoSelection
    /\ UNCHANGED listVars

\* Lines 540-542: the runtime runs the command of an Enter.  The closure
\* holds the model and the pointer d; d.sessionID is read now.
RunSelectCmd(k) ==
    /\ lastSelected # Panicked
    /\ k \in 1..Len(inFlight)
    /\ inFlight[k].kind = "selectCmd"
    /\ lastSelected' = [kind |-> "modelSelectedMsg",
                        sessionID |-> geminiModelDialog.sessionID,
                        model |-> inFlight[k].model,
                        shown |-> inFlight[k].shown]
    /\ inFlight' = Without(inFlight, k)
    /\ UNCHANGED <<geminiModelDialog, listVars>>

\* NewDialog.  Of the struct: visible, focusIndex, commandCursor (from 0, as in
\* the code), parentGroupPath, worktreeEnabled, geminiYoloMode,
\* globalYoloMode and pathSuggestions.  The text in the four inputs and the
\* cursor in the suggestions decide none of these fields; which input a key
\* is handed to is recorded with the key.  The input at focusIndex is the
\* focused one: every change of focusIndex is followed by updateFocus (lines
\* 1180-1205).
presetCommands == <<"", "claude", "gemini", "opencode", "codex">>

\* Lines 645-693: NewNewDialog().
NewNewDialog ==
    [visible |-> FALSE, focusIndex |-> 0, commandCursor |-> 0,
     parentGroupPath |-> "default", worktreeEnabled |-> FALSE,
     geminiYoloMode |-> FALSE, globalYoloMode |-> FALSE,
     pathSuggestions |-> <<>>]

\* Lines 846-869: GetSelectedCommand, isClaudeSelected, isGeminiSelected.
GetSelectedCommand(d) ==
    IF d.commandCursor >= 0 /\ d.commandCursor < Len(presetCommands)
    THEN presetCommands[d.commandCursor + 1] ELSE ""

isClaudeSelected(d) ==
    d.commandCursor < Len(presetCommands) /\ presetCommands[d.commandCursor + 1] = "claude"

isGeminiSelected(d) ==
    d.commandCursor < Len(presetCommands) /\ presetCommands[d.commandCursor + 1] = "gemini"

\* What session.LoadUserConfig gives: an error, or the user's configuration
\* with Gemini.YoloMode set or not.
UserConfigs ==
    {[err |-> TRUE, YoloMode |-> FALSE], [err |-> FALSE, YoloMode |-> TRUE],
     [err |-> FALSE, YoloMode |-> FALSE]}

\* Lines 700-735: ShowInGroup.  The command selection is left as it is.
ShowInGroup(d, groupPath, config) ==
    [d EXCEPT !.parentGroupPath = IF groupPath = "" THEN "default" ELSE groupPath,
              !.visible = TRUE,
              !.focusIndex = 0,
              !.worktreeEnabled = FALSE,
              !.geminiYoloMode = ~config.err /\ config.YoloMode]

\* Lines 754-775: SetDefaultTool.
IndexOfPreset(tool) ==
    IF \E i \in 1..Len(presetCommands) : presetCommands[i] = tool
    THEN (CHOOSE i \in 1..Len(presetCommands) :
             /\ presetCommands[i] = tool
             /\ \A j \in 1..(i - 1) : presetCommands[j] # tool) - 1
    ELSE -1

SetDefaultTool(d, tool, globalYoloMode) ==
    LET g == [d EXCEPT !.globalYoloMode = globalYoloMode]
    IN  IF tool = "" THEN [g EXCEPT !.commandCursor = 0, !.geminiYoloMode = FALSE]
        ELSE IF IndexOfPreset(tool) < 0 THEN g
        ELSE [g EXCEPT !.commandCursor = IndexOfPreset(tool),
                       !.geminiYoloMode = IF tool = "gemini" THEN globalYoloMode
                                          ELSE FALSE]

\* Lines 829-833, 802-808: the command and the flag GetValuesWithYolo returns
\* (with no custom command typed).
GetValuesWithYolo(d) ==
    [command |-> IF d.commandCursor < Len(presetCommands)
                 THEN presetCommands[d.commandCursor + 1] ELSE "",
     yoloEnabled |-> d.geminiYoloMode]

\* Lines 1153-1175: the key goes to the input the focus is on.  to names the
\* receiver; "none" when the input of that focus index is not shown.
UpdateActiveInput(d, key) ==
    CASE d.focusIndex = 0 -> [d |-> d, to |-> "name"]
      [] d.focusIndex = 1 -> [d |-> d, to |-> "path"]
      [] d.focusIndex = 2 ->
            [d |-> d, to |-> IF presetCommands[d.commandCursor + 1] = ""
                             THEN "command" ELSE "none"]
      [] d.focusIndex = 3 ->
            [d |-> d, to |-> IF d.worktreeEnabled THEN "branch" ELSE "none"]
      [] d.focusIndex = 4 ->
            [d |-> d, to |-> IF isClaudeSelected(d) THEN "claude" ELSE "none"]
      [] OTHER -> [d |-> d, to |-> "none"]

Handled(d) == [d |-> d, to |-> "none"]

\* Lines 1085-1090, 1104-1109: the flag after the command selection moved.
AutoYolo(d) ==
    [d EXCEPT !.geminiYoloMode =
                 IF presetCommands[d.commandCursor + 1] = "gemini"
                 THEN d.globalYoloMode ELSE FALSE]

\* Lines 1131-1136: the y key.
OnYAnywhere(d, key) ==
    Handled([d EXCEPT !.geminiYoloMode = ~@])

OnY(d, key) ==
    IF d.focusIndex = 2 /\ GetSelectedCommand(d) = "gemini"
    THEN Handled([d EXCEPT !.geminiYoloMode = ~@])
    ELSE UpdateActiveInput(d, key)

\* Lines 1040-1054: up and k.
OnUp(d, key) ==
    IF d.focusIndex = 1 /\ Len(d.pathSuggestions) > 0 THEN Handled(d)
    ELSE IF d.focusIndex > 0 THEN Handled([d EXCEPT !.focusIndex = @ - 1])
    ELSE Handled(d)

\* Lines 1057-1076: down and j.
OnDown(d, key) ==
    IF d.focusIndex = 1 /\ Len(d.pathSuggestions) > 0 THEN Handled(d)
    ELSE IF d.focusIndex < 4
    THEN (IF d.focusIndex = 2 /\ ~d.worktreeEnabled /\ ~isClaudeSelected(d)
          THEN Handled(d)
          ELSE IF d.focusIndex = 3 /\ ~isClaudeSelected(d) THEN Handled(d)
          ELSE Handled([d EXCEPT !.focusIndex = @ + 1]))
    ELSE Handled(d)

\* Lines 945-1178: Update on a key.  cycled: the options panel, not part of
\* this source, reports that Tab took it back to its first field.
NewDialogUpdate(d, key, cycled) ==
    IF ~d.visible THEN Handled(d)
    ELSE CASE key = "tab" ->
                 IF isClaudeSelected(d) /\ d.focusIndex >= 4
                 THEN [d |-> IF cycled THEN [d EXCEPT !.focusIndex = 0] ELSE d,
                       to |-> "claude"]
                 ELSE Handled([d EXCEPT !.focusIndex =
                         IF @ < 2 THEN @ + 1
                         ELSE IF @ = 2
                         THEN (IF d.worktreeEnabled THEN 3
                               ELSE IF isClaudeSelected(d) THEN 4 ELSE 0)
                         ELSE IF @ = 3
                         THEN (IF isClaudeSelected(d) THEN 4 ELSE 0)
                         ELSE 0])
           [] key = "shift+tab" ->
                 IF isClaudeSelected(d) /\ d.focusIndex >= 4
                 THEN [d |-> d, to |-> "claude"]
                 ELSE Handled([d EXCEPT !.focusIndex =
                         IF @ > 0 THEN @ - 1
                         ELSE IF isClaudeSelected(d) THEN 4
                         ELSE IF d.worktreeEnabled THEN 3 ELSE 2])
           [] key \in {"ctrl+n", "ctrl+p"} ->
                 IF d.focusIndex = 1 /\ Len(d.pathSuggestions) > 0 THEN Handled(d)
                 ELSE UpdateActiveInput(d, key)
           [] key \in {"up", "k"} -> OnUp(d, key)
           [] key \in {"down", "j"} -> OnDown(d, key)
           [] key = "left" ->
                 IF d.focusIndex = 2
                 THEN Handled(AutoYolo([d EXCEPT !.commandCursor =
                         IF @ - 1 < 0 THEN Len(presetCommands) - 1 ELSE @ - 1]))
                 ELSE IF d.focusIndex >= 4 /\ isClaudeSelected(d)
                 THEN [d |-> d, to |-> "claude"]
                 ELSE UpdateActiveInput(d, key)
           [] key = "right" ->
                 IF d.focusIndex = 2
                 THEN Handled(AutoYolo([d EXCEPT !.commandCursor =
                         (@ + 1) % Len(presetCommands)]))
                 ELSE IF d.focusIndex >= 4 /\ isClaudeSelected(d)
                 THEN [d |-> d, to |-> "claude"]
                 ELSE UpdateActiveInput(d, key)
           [] key = "w" ->
                 IF d.focusIndex = 2
                 THEN Handled([d EXCEPT !.worktreeEnabled = ~@,
                                        !.focusIndex = IF ~d.worktreeEnabled THEN 3 ELSE @])
                 ELSE UpdateActiveInput(d, key)
           [] key = "y" -> OnY(d, key)
           [] key = " " ->
                 IF d.focusIndex = 2 /\ isGeminiSelected(d)
                 THEN Handled([d EXCEPT !.geminiYoloMode = ~@])
                 ELSE IF d.focusIndex >= 4 /\ isClaudeSelected(d)
                 THEN [d |-> d, to |-> "claude"]
                 ELSE UpdateActiveInput(d, key)
           [] OTHER -> UpdateActiveInput(d, key)

NoKey == [key |-> "", before |-> NewNewDialog, to |-> "none"]

\* The home screen opens the dialog.
NewDialogShowInGroup(groupPath, config) ==
    /\ newDialog' = ShowInGroup(newDialog, groupPath, config)
    /\ lastKey' = NoKey

NewDialogSetDefaultTool(tool, globalYoloMode) ==
    /\ newDialog' = SetDefaultTool(newDialog, tool, globalYoloMode)
    /\ lastKey' = NoKey

\* The tool is preset when the dialog is opened, before it handles a key.
SetDefaultToolOnOpen(tool, globalYoloMode) ==
    /\ lastKey = NoKey
    /\ NewDialogSetDefaultTool(tool, globalYoloMode)

\* Lines 738-740: Hide.
NewDialogHide ==
    /\ newDialog.visible
    /\ newDialog' = [newDialog EXCEPT !.visible = FALSE]
    /\ UNCHANGED lastKey

\* Lines 778-781: SetPathSuggestions.
SetPathSuggestions(paths) ==
    /\ newDialog' = [newDialog EXCEPT !.pathSuggestions = paths]
    /\ newDialog' # newDialog
    /\ UNCHANGED lastKey

\* A key arrives.
NewDialogKey(key, cycled) ==
    LET after == NewDialogUpdate(newDialog, key, cycled)
    IN  /\ newDialog' = after.d
        /\ lastKey' = [key |-> key, before |-> newDialog, to |-> after.to]

-----------------------------------------------------------------------------
(* Specifications                                                          *)

Init ==
    /\ registry = {}
    /\ Status = [i \in Instances |-> "Stopped"]
    /\ GeminiYoloMode = [i \in Instances |-> nil]
    /\ tmuxAlive = [i \in Instances |-> FALSE]
    /\ tmuxEnv = [i \in Instances |-> Unset]
    /\ lastOp = NoOp
    /\ roundTrip = [i \in Instances |-> NoTrip]
    /\ files = NoFiles
    /\ analytics = ZeroAnalytics
    /\ lastCall = NoCall
    /\ geminiModelsCache = <<>>
    /\ geminiModelsLast = 0
    /\ now = 1
    /\ env = NoEnv
    /\ lastGet = NoGet
    /\ confirmDialog = NewConfirmDialog
    /\ geminiModelDialog = NewGeminiModelDialog
    /\ inFlight = <<>>
    /\ lastSelected = NoSelection
    /\ newDialog = NewNewDialog
    /\ lastKey = NoKey
    /\ geminiModelsCacheMu = 0
    /\ callers = [c \in Callers |-> IdleCaller]
    /\ refreshers = [r \in Refreshers |-> IdleRefresher]

Next ==
    \/ \E i \in Instances : NewInstanceWithTool(i) /\ UNCHANGED nonModeVars
    \/ \E i \in Instances, g \in BOOLEAN : Start(i, g) /\ UNCHANGED nonModeVars
    \/ \E i \in Instances : Kill(i) /\ UNCHANGED nonModeVars
    \/ \E i \in Instances : ExternalKill(i) /\ UNCHANGED nonModeVars
    \/ \E i \in Instances, val \in EnvValues :
          ExternalSetEnvironment(i, val) /\ UNCHANGED nonModeVars
    \/ \E i \in Instances, enabled \in BOOLEAN :
          SetGeminiYoloMode(i, enabled) /\ UNCHANGED nonModeVars
    \/ \E i \in Instances : UpdateGeminiSession(i) /\ UNCHANGED nonModeVars
    \/ \E i \in Instances : Attach(i) /\ UNCHANGED nonModeVars

Spec == Init /\ [][Next]_vars

\* Starts and restarts: the lifecycle of the instances driven from the home
\* screen through the confirmation dialog.
NextRestart ==
    \/ \E i \in Instances : NewInstanceWithTool(i) /\ UNCHANGED nonModeVars
    \/ \E i \in Instances, g \in BOOLEAN : Start(i, g) /\ UNCHANGED nonModeVars
    \/ \E i \in Instances : ExternalKill(i) /\ UNCHANGED nonModeVars
    \/ \E i \in Instances : OpenConfirm(i)
    \/ CancelConfirm
    \/ \E g \in BOOLEAN : HandleConfirm(g)

SpecRestart == Init /\ [][NextRestart]_vars

\* The lifecycle of the instances alone: create, start, kill and every
\* operation on a record in between, and sessions killed from outside.
NextLifecycle ==
    \/ \E i \in Instances : NewInstanceWithTool(i) /\ UNCHANGED nonModeVars
    \/ \E i \in Instances, g \in BOOLEAN : Start(i, g) /\ UNCHANGED nonModeVars
    \/ \E i \in Instances : Kill(i) /\ UNCHANGED nonModeVars
    \/ \E i \in Instances : ExternalKill(i) /\ UNCHANGED nonModeVars
    \/ \E i \in Instances : UpdateGeminiSession(i) /\ UNCHANGED nonModeVars
    \/ \E i \in Instances, enabled \in BOOLEAN :
          SetGeminiYoloMode(i, enabled) /\ UNCHANGED nonModeVars
    \/ \E i \in Instances, g \in BOOLEAN : Restart(i, g) /\ UNCHANGED nonModeVars
    \/ \E i \in Instances, enabled \in BOOLEAN :
          YoloRestart(i, enabled) /\ UNCHANGED nonModeVars

SpecLifecycle == Init /\ [][NextLifecycle]_vars

\* The transcripts the cache is exercised with: three messages with two agent
\* turns, no agent turn and no readable timestamp, a single agent turn.
SessionTurns ==
    Transcript([layout |-> "offset", t |-> 1], [layout |-> "millisZ", t |-> 2],
               << [type |-> "gemini", model |-> "m1", input |-> 1, output |-> 2],
                  [type |-> "user", model |-> "", input |-> 2, output |-> 1],
                  [type |-> "gemini", model |-> "", input |-> 2, output |-> 1] >>)

SessionNoTurns ==
    Transcript([layout |-> "bad", t |-> 0], [layout |-> "bad", t |-> 0],
               << [type |-> "user", model |-> "m2", input |-> 1, output |-> 2] >>)

SessionOneTurn ==
    Transcript([layout |-> "millisZ", t |-> 2], [layout |-> "millisZ", t |-> 2],
               << [type |-> "gemini", model |-> "m2", input |-> 2, output |-> 1] >>)

CacheContents == {Malformed, SessionTurns, SessionNoTurns, SessionOneTurn}

\* The files written in the cache specification: one name in the expected
\* project directory, one in another project directory.
CacheFiles == {<<1, 1>>, <<2, 1>>}

\* The working directories of the calls: the one of project 1, and the empty
\* path (filepath.Abs("") is the current directory, here one without sessions).
CachePaths == {"/work", ""}

NextAnalytics ==
    \/ \E f \in CacheFiles, c \in CacheContents, m \in 1..MaxTime :
          WriteFile(f, SubSeq(SessionA, 1, IDPrefixLen), c, m) /\ UNCHANGED nonDiskVars
    \/ \E f \in CacheFiles : Chmod(f) /\ UNCHANGED nonDiskVars
    \/ \E f \in CacheFiles : RemoveFile(f) /\ UNCHANGED nonDiskVars
    \/ \E projectPath \in CachePaths, id \in {SessionA, ShortID} :
          UpdateGeminiAnalyticsFromDisk(projectPath, id) /\ UNCHANGED nonDiskVars

SpecAnalytics == Init /\ [][NextAnalytics]_vars

\* Every transcript of at most MaxMessages messages.
RECURSIVE SeqsUpTo(_, _)
SeqsUpTo(S, n) ==
    IF n = 0 THEN {<<>>}
    ELSE LET shorter == SeqsUpTo(S, n - 1)
         IN  shorter \cup {Append(q, x) : q \in {r \in shorter : Len(r) = n - 1}, x \in S}

AllSessions ==
    {Malformed} \cup
    {Transcript(st, lu, msgs) :
        st \in Timestamps, lu \in Timestamps, msgs \in SeqsUpTo(Messages, MaxMessages)}

\* The struct a call can find: fresh, or left by an earlier parse of another file.
PriorAnalytics == {ZeroAnalytics, StoreSession(ZeroAnalytics, SessionTurns, MaxTime + 1)}

InitParse ==
    /\ registry = {}
    /\ Status = [i \in Instances |-> "Stopped"]
    /\ GeminiYoloMode = [i \in Instances |-> nil]
    /\ tmuxAlive = [i \in Instances |-> FALSE]
    /\ tmuxEnv = [i \in Instances |-> Unset]
    /\ lastOp = NoOp
    /\ roundTrip = [i \in Instances |-> NoTrip]
    /\ \E c \in AllSessions :
          files = [NoFiles EXCEPT ![<<1, 1>>] =
                      [exists |-> TRUE, id8 |-> SubSeq(SessionA, 1, IDPrefixLen),
                       mtime |-> MaxTime, readable |-> TRUE, content |-> c]]
    /\ analytics \in PriorAnalytics
    /\ lastCall = NoCall
    /\ geminiModelsCache = <<>>
    /\ geminiModelsLast = 0
    /\ now = 1
    /\ env = NoEnv
    /\ lastGet = NoGet
    /\ confirmDialog = NewConfirmDialog
    /\ geminiModelDialog = NewGeminiModelDialog
    /\ inFlight = <<>>
    /\ lastSelected = NoSelection
    /\ newDialog = NewNewDialog
    /\ lastKey = NoKey
    /\ geminiModelsCacheMu = 0
    /\ callers = [c \in Callers |-> IdleCaller]
    /\ refreshers = [r \in Refreshers |-> IdleRefresher]

NextParse ==
    \/ UpdateGeminiAnalyticsFromDisk("/work", SessionA) /\ UNCHANGED nonDiskVars
    \/ ParseGeminiSessionFile(<<1, 1>>) /\ UNCHANGED nonDiskVars

SpecParse == InitParse /\ [][NextParse]_vars

\* The locator is exercised over every name of every project directory, with
\* files of two sessions whose identifiers differ in the first 8 characters,
\* from the working directory of the files in project 1 and from a working
\* directory whose hash has no project directory.
SessionB == <<2, 1, 1, 1, 1, 1, 1, 1, 1>>

LocateIds == {SubSeq(SessionA, 1, IDPrefixLen), SubSeq(SessionB, 1, IDPrefixLen)}

LocatePaths == {"/work", "/moved"}

NextLocate ==
    \/ \E f \in FileIds, id8 \in LocateIds, m \in 1..MaxTime :
          WriteFile(f, id8, SessionOneTurn, m) /\ UNCHANGED nonDiskVars
    \/ \E f \in FileIds : RemoveFile(f) /\ UNCHANGED nonDiskVars
    \/ \E dir \in ProjectDirs, id8 \in LocateIds :
          FindNewestFile(dir, id8) /\ UNCHANGED nonDiskVars
    \/ \E projectPath \in LocatePaths :
          UpdateGeminiAnalyticsFromDisk(projectPath, SessionA) /\ UNCHANGED nonDiskVars

SpecLocate == Init /\ [][NextLocate]_vars

\* A transcript last updated at instant 1, later than its start is written.
SessionEarly ==
    Transcript([layout |-> "bad", t |-> 0], [layout |-> "offset", t |-> 1],
               << [type |-> "user", model |-> "", input |-> 1, output |-> 2],
                  [type |-> "gemini", model |-> "m1", input |-> 2, output |-> 1] >>)

\* What the listed files hold: nothing json.Unmarshal accepts, or a
\* transcript last updated at 0 (unparseable), 1 or 2.
ListContents == {Malformed, SessionNoTurns, SessionEarly, SessionTurns}

ListPaths == {"/work", "/moved"}

\* Listing the sessions of a project while files come, go and change.
NextList ==
    \/ \E f \in FileIds, c \in ListContents :
          WriteFile(f, SubSeq(SessionA, 1, IDPrefixLen), c, 1) /\ UNCHANGED nonDiskVars
    \/ \E f \in FileIds : Chmod(f) /\ UNCHANGED nonDiskVars
    \/ \E f \in FileIds : RemoveFile(f) /\ UNCHANGED nonDiskVars
    \/ \E projectPath \in ListPaths :
          ListGeminiSessions(projectPath) /\ UNCHANGED nonDiskVars

SpecList == Init /\ [][NextList]_vars

\* The values GEMINI_MODELS_OVERRIDE takes: "m1, m2,m1", " m2 ,m1", "m1,,m2 ".
Overrides ==
    { <<"m1", ",", " ", "m2", ",", "m1">>,
      <<" ", "m2", " ", ",", "m1">>,
      <<"m1", ",", ",", "m2", " ">> }

NextModels ==
    \/ \E resp \in Responses :
          GetAvailableGeminiModels(resp) /\ UNCHANGED nonListVars
    \/ \E value \in Overrides \cup {<<>>} :
          Setenv("override", value) /\ UNCHANGED nonListVars
    \/ \E value \in {"", "key"} :
          Setenv("apiKey", value) /\ UNCHANGED nonListVars
    \/ Tick /\ UNCHANGED nonListVars

SpecModels == Init /\ [][NextModels]_vars

\* Goroutines calling GetAvailableGeminiModels concurrently.  The clock
\* stands still: no hour passes between a fetch and the calls waiting for it.
NextCallers ==
    \/ \E c \in Callers : CallGetAvailableGeminiModels(c) /\ UNCHANGED nonCallerVars
    \/ \E c \in Callers : LockAndCheckCache(c) /\ UNCHANGED nonCallerVars
    \/ \E c \in Callers, resp \in Responses :
          FetchReturns(c, resp) /\ UNCHANGED nonCallerVars
    \/ \E c \in Callers : CallerDone(c) /\ UNCHANGED nonCallerVars
    \/ \E value \in {"", "key"} :
          SetenvBetweenCalls("apiKey", value) /\ UNCHANGED nonCallerVars
    \/ \E value \in {<<>>, <<"m1">>} :
          SetenvBetweenCalls("override", value) /\ UNCHANGED nonCallerVars

SpecCallers == Init /\ [][NextCallers]_vars

\* Goroutines refreshing the analytics of one instance concurrently: one
\* session file that does not change, the struct as NewInstance leaves it.
InitRefreshers ==
    /\ registry = {}
    /\ Status = [i \in Instances |-> "Stopped"]
    /\ GeminiYoloMode = [i \in Instances |-> nil]
    /\ tmuxAlive = [i \in Instances |-> FALSE]
    /\ tmuxEnv = [i \in Instances |-> Unset]
    /\ lastOp = NoOp
    /\ roundTrip = [i \in Instances |-> NoTrip]
    /\ \E c \in {SessionTurns, SessionOneTurn} :
          files = [NoFiles EXCEPT ![<<1, 1>>] =
                      [exists |-> TRUE, id8 |-> SubSeq(SessionA, 1, IDPrefixLen),
                       mtime |-> 1, readable |-> TRUE, content |-> c]]
    /\ analytics = ZeroAnalytics
    /\ lastCall = NoCall
    /\ geminiModelsCache = <<>>
    /\ geminiModelsLast = 0
    /\ now = 1
    /\ env = NoEnv
    /\ lastGet = NoGet
    /\ confirmDialog = NewConfirmDialog
    /\ geminiModelDialog = NewGeminiModelDialog
    /\ inFlight = <<>>
    /\ lastSelected = NoSelection
    /\ newDialog = NewNewDialog
    /\ lastKey = NoKey
    /\ geminiModelsCacheMu = 0
    /\ callers = [c \in Callers |-> IdleCaller]
    /\ refreshers = [r \in Refreshers |-> IdleRefresher]

NextRefreshers ==
    \/ \E r \in Refreshers :
          RefreshBegin(r, "/work", SessionA) /\ UNCHANGED nonRefresherVars
    \/ \E r \in Refreshers : RefreshStoreTimes(r) /\ UNCHANGED nonRefresherVars
    \/ \E r \in Refreshers : RefreshReset(r) /\ UNCHANGED nonRefresherVars
    \/ \E r \in Refreshers : RefreshAddMessage(r) /\ UNCHANGED nonRefresherVars
    \/ \E r \in Refreshers : RefreshReturn(r) /\ UNCHANGED nonRefresherVars

SpecRefreshers == InitRefreshers /\ [][NextRefreshers]_vars

\* One goroutine refreshing the analytics of one instance in two steps while
\* the transcript is rewritten.
StatReadContents == {Malformed, SessionTurns, SessionOneTurn, SessionNoTurns}

nonStatReadVars == <<modeVars, listVars, uiVars, geminiModelsCacheMu, callers>>

NextStatRead ==
    \/ \E c \in StatReadContents, m \in 1..MaxTime :
          WriteFileDuringRefresh(1, <<1, 1>>, SubSeq(SessionA, 1, IDPrefixLen), c, m)
             /\ UNCHANGED nonStatReadVars
    \/ StatRefresh(1, "/work", SessionA) /\ UNCHANGED nonStatReadVars
    \/ ReadRefresh(1) /\ UNCHANGED nonStatReadVars

SpecStatRead == Init /\ [][NextStatRead]_vars

\* The model selection dialog: the home screen shows it for one of two
\* sessions, keys and the results of its commands arrive in any order, the
\* credential is set or removed and time passes.
DialogSessions == {"s1", "s2"}

ModelDialogKeys == {"esc", "up", "k", "down", "j", "x"}

\* What the network answers while the dialog is used: a failure, a catalog
\* with one generating model, a catalog with two.
DialogResponses ==
    {resp \in Responses :
        \/ resp.err = "failed to fetch models"
        \/ resp.err = "" /\ Len(GeneratingModels(resp.models)) > 0}

NextModelDialog ==
    \/ \E sessionID \in DialogSessions :
          GeminiModelDialogShow(sessionID) /\ UNCHANGED nonModelDialogVars
    \/ \E k \in 1..MaxInFlight, resp \in DialogResponses :
          RunFetchCmd(k, resp) /\ UNCHANGED nonModelDialogVars
    \/ \E k \in 1..MaxInFlight : DeliverFetched(k) /\ UNCHANGED nonModelDialogVars
    \/ \E key \in ModelDialogKeys :
          GeminiModelDialogKey(key) /\ UNCHANGED nonModelDialogVars
    \/ GeminiModelDialogEnter /\ UNCHANGED nonModelDialogVars
    \/ \E k \in 1..MaxInFlight : RunSelectCmd(k) /\ UNCHANGED nonModelDialogVars
    \/ \E value \in {"", "key"} :
          Setenv("apiKey", value) /\ UNCHANGED <<nonModelDialogVars, modelDialogVars>>
    \/ Tick /\ UNCHANGED <<nonModelDialogVars, modelDialogVars>>

SpecModelDialog == Init /\ [][NextModelDialog]_vars

\* The new session dialog: opened for a group, preset to a tool, typed into.
NewDialogKeys ==
    {"tab", "shift+tab", "ctrl+n", "up", "k", "down", "j", "left", "right",
     "w", "y", " ", "a"}

Tools == {"", "claude", "gemini", "aider"}

NextNewDialog ==
    \/ \E groupPath \in {"", "g"}, config \in UserConfigs :
          NewDialogShowInGroup(groupPath, config) /\ UNCHANGED nonNewDialogVars
    \/ \E tool \in Tools, globalYoloMode \in BOOLEAN :
          NewDialogSetDefaultTool(tool, globalYoloMode) /\ UNCHANGED nonNewDialogVars
    \/ NewDialogHide /\ UNCHANGED nonNewDialogVars
    \/ \E paths \in {<<>>, <<"p">>} :
          SetPathSuggestions(paths) /\ UNCHANGED nonNewDialogVars
    \/ \E key \in NewDialogKeys, cycled \in BOOLEAN :
          NewDialogKey(key, cycled) /\ UNCHANGED nonNewDialogVars

SpecNewDialog == Init /\ [][NextNewDialog]_vars

\* The same dialog when, once it is open, only keys reach it.
NextNewDialogKeys ==
    \/ \E groupPath \in {"", "g"}, config \in UserConfigs :
          NewDialogShowInGroup(groupPath, config) /\ UNCHANGED nonNewDialogVars
    \/ \E tool \in Tools, globalYoloMode \in BOOLEAN :
          SetDefaultToolOnOpen(tool, globalYoloMode) /\ UNCHANGED nonNewDialogVars
    \/ NewDialogHide /\ UNCHANGED nonNewDialogVars
    \/ \E paths \in {<<>>, <<"p">>} :
          SetPathSuggestions(paths) /\ UNCHANGED nonNewDialogVars
    \/ \E key \in NewDialogKeys, cycled \in BOOLEAN :
          NewDialogKey(key, cycled) /\ UNCHANGED nonNewDialogVars

SpecNewDialogKeys == Init /\ [][NextNewDialogKeys]_vars

-----------------------------------------------------------------------------
(* Properties of Part I                                                    *)

\* C1: round trip through the adapter.  After SetGeminiYoloMode(v) on a live
\* session, a freshly attached instance of the same session (flag nil, session
\* still alive, nothing else touching the session in between) ends
\* UpdateGeminiSession with its flag equal to v.
RoundTripThroughAdapter ==
    \A i \in Instances :
        roundTrip[i].stage = "refreshed" => GeminiYoloMode[i] = Ptr(roundTrip[i].v)

RoundTripWitness ==
    \E i \in Instances :
        /\ roundTrip[i].stage = "refreshed"
        /\ roundTrip[i].v = FALSE
        /\ lastOp.op = "UpdateGeminiSession" /\ lastOp.inst = i
        /\ lastOp.yoloBefore = nil /\ lastOp.aliveBefore
        /\ GeminiYoloMode[i] = Ptr(FALSE)

SetYoloModeWritesBothStores ==
    LET i == lastOp.inst IN
    lastOp.op = "SetGeminiYoloMode"
        => /\ GeminiYoloMode[i] = Ptr(lastOp.arg)
           /\ lastOp.aliveBefore => ~lastOp.err
           /\ ~lastOp.err => tmuxEnv[i] = (IF lastOp.arg THEN "true" ELSE "false")

SetYoloModeWitness ==
    /\ lastOp.op = "SetGeminiYoloMode" /\ ~lastOp.err
    /\ lastOp.arg = FALSE
    /\ lastOp.yoloBefore = Ptr(TRUE) /\ lastOp.envBefore = "true"
    /\ GeminiYoloMode[lastOp.inst] = Ptr(FALSE)
    /\ tmuxEnv[lastOp.inst] = "false"

SetYoloModeOptimisticOnError ==
    LET i == lastOp.inst IN
    (lastOp.op = "SetGeminiYoloMode" /\ ~lastOp.aliveBefore)
        => /\ lastOp.err
           /\ GeminiYoloMode[i] = Ptr(lastOp.arg)
           /\ tmuxEnv[i] = lastOp.envBefore

SetYoloModeErrorWitness ==
    /\ lastOp.op = "SetGeminiYoloMode" /\ lastOp.err
    /\ lastOp.yoloBefore = Ptr(FALSE) /\ lastOp.arg = TRUE
    /\ GeminiYoloMode[lastOp.inst] = Ptr(TRUE)
    /\ Status[lastOp.inst] = "Stopped"

\* A start or restart that launched a session.
Launched == lastOp.op \in {"Start", "Restart", "YoloRestart"} /\ ~lastOp.err

\* C24: right after a start or restart that launched a session, the launch
\* command carried the mode switch exactly when the mode in force is on (the
\* flag when it is set, the global preference while it is nil) and the session
\* variable holds that mode as "true" / "false"; with the flag set, the switch
\* is there exactly when the flag is true.  A restart confirmed from the
\* mode-toggle dialog leaves the flag at the value the dialog was opened with
\* and launches with that value in both places.
LaunchAgreesInBothPlaces ==
    LET i == lastOp.inst
        mode == IF GeminiYoloMode[i] = nil THEN lastOp.arg ELSE GeminiYoloMode[i][1]
    IN  Launched
          => /\ tmuxAlive[i] /\ Status[i] = "Running"
             /\ lastOp.yoloSwitch = mode
             /\ tmuxEnv[i] = (IF mode THEN "true" ELSE "false")
             /\ GeminiYoloMode[i] # nil
                   => (lastOp.yoloSwitch <=> GeminiYoloMode[i] = Ptr(TRUE))
             /\ lastOp.op = "YoloRestart"
                   => GeminiYoloMode[i] = Ptr(lastOp.arg)

\* The mode was on in both places; the dialog was opened to turn it off and
\* confirmed.
YoloRestartWitness ==
    /\ lastOp.op = "YoloRestart" /\ ~lastOp.err
    /\ lastOp.yoloBefore = Ptr(TRUE) /\ lastOp.envBefore = "true"
    /\ ~lastOp.arg
    /\ GeminiYoloMode[lastOp.inst] = Ptr(FALSE)
    /\ tmuxEnv[lastOp.inst] = "false"
    /\ ~lastOp.yoloSwitch
    /\ ~confirmDialog.visible

\* C25: a record is created with the flag nil; the flag turns from nil into a
\* boolean only in SetGeminiYoloMode or UpdateGeminiSession, each of which
\* always leaves a boolean behind; and a flag that is a boolean turns nil
\* only where the record ends: Kill drops it, and an application restart
\* (Attach) builds a new record.
FlagCollapsesOneWay ==
    [][LET i == lastOp'.inst
           op == lastOp'.op
           before == GeminiYoloMode[i]
           after == GeminiYoloMode'[i]
       IN  /\ \A j \in Instances \ {i} : GeminiYoloMode'[j] = GeminiYoloMode[j]
           /\ CASE op = "NewInstanceWithTool" -> after = nil
                [] op = "SetGeminiYoloMode" -> after # nil
                [] op = "UpdateGeminiSession" ->
                      after # nil /\ (before # nil => after = before)
                [] op \in {"Kill", "Attach"} -> after = nil
                [] OTHER -> after = before]_vars

\* The first refresh found the flag nil and could not read the variable: the
\* flag is false from then on.
FlagCollapsedWitness ==
    /\ lastOp.op = "UpdateGeminiSession"
    /\ lastOp.yoloBefore = nil
    /\ lastOp.err
    /\ GeminiYoloMode[lastOp.inst] = Ptr(FALSE)

\* C26: right after an UpdateGeminiSession that found the flag set, the
\* session environment was not read, the flag is what it was and the call
\* returned no error, whatever the variable holds and whether or not the
\* session is alive; the session environment is as it was as well.
RefreshKeepsSetFlag ==
    lastOp.op = "UpdateGeminiSession" /\ lastOp.yoloBefore # nil
      => /\ ~lastOp.queried
         /\ ~lastOp.err
         /\ GeminiYoloMode[lastOp.inst] = lastOp.yoloBefore
         /\ tmuxEnv[lastOp.inst] = lastOp.envBefore

\* The flag was false while the live session's variable said "true": the
\* refresh kept false.
RefreshKeepsSetFlagWitness ==
    /\ lastOp.op = "UpdateGeminiSession"
    /\ lastOp.yoloBefore = Ptr(FALSE)
    /\ lastOp.aliveBefore /\ lastOp.envBefore = "true"
    /\ GeminiYoloMode[lastOp.inst] = Ptr(FALSE)

\* The steps of the lifecycle Created -> Running -> Stopped.
LifecycleSteps ==
    {<<"Created", "Running">>, <<"Running", "Stopped">>}

\* C27: in every step, the status of a record that stays in the registry is
\* kept or moves one step along Created -> Running -> Stopped; a record
\* enters the registry as Created; a Kill leaves its instance out of the
\* registry with its session gone, and a record leaves the registry in no
\* other way.
LifecycleMovesForward ==
    [][/\ \A i \in registry' :
            IF i \in registry
            THEN Status'[i] = Status[i] \/ <<Status[i], Status'[i]>> \in LifecycleSteps
            ELSE Status'[i] = "Created"
       /\ lastOp' # lastOp /\ lastOp'.op = "Kill"
            => /\ lastOp'.inst \in registry \ registry'
               /\ ~tmuxAlive'[lastOp'.inst]
       /\ \A i \in registry \ registry' :
            lastOp'.op = "Kill" /\ lastOp'.inst = i]_vars

\* A session was killed while another record, whose session had been killed
\* from outside, is Stopped and still in the registry.
LifecycleWitness ==
    /\ lastOp.op = "Kill"
    /\ lastOp.aliveBefore
    /\ lastOp.inst \notin registry
    /\ \E j \in registry : Status[j] = "Stopped"

Stale(reg, status, alive, i) ==
    i \in reg /\ status[i] = "Running" /\ ~alive[i]

-----------------------------------------------------------------------------
(* Properties of Part II                                                   *)

IsUpdate == lastCall.op = "UpdateGeminiAnalyticsFromDisk"

\* The file the last call settled on, as it is on disk.
Seen == files[lastCall.file]

ParseInvocations(parsed) == IF parsed THEN 1 ELSE 0

\* C6 as stated: of two successive calls for the same session that both find a
\* transcript, with no file modified in between, the second is a cache hit
\* that reads and parses nothing and leaves the struct (fingerprint included)
\* unchanged, and the two calls make exactly one parse between them.
SecondRefreshIsAlwaysCacheHit ==
    (/\ IsUpdate /\ lastCall.prevCalled
     /\ lastCall.prevErr \notin {"invalid session ID", "session file not found"})
        => /\ lastCall.err = "" /\ ~lastCall.read /\ ~lastCall.parsed
           /\ analytics = lastCall.before
           /\ ParseInvocations(lastCall.prevParsed) + ParseInvocations(lastCall.parsed) = 1

\* C6 amended: when a call has parsed the transcript successfully, the next
\* call for the same session, with no file modified since, is a cache hit: it
\* reads and parses nothing and leaves the struct and the fingerprint as they
\* were, so the two calls make exactly one parse.
RefreshAfterParseIsCacheHit ==
    (IsUpdate /\ lastCall.prevCalled /\ lastCall.prevParsed /\ lastCall.prevErr = "")
        => /\ lastCall.err = "" /\ lastCall.file # NoPath
           /\ ~lastCall.read /\ ~lastCall.parsed
           /\ analytics = lastCall.before
           /\ ParseInvocations(lastCall.prevParsed) + ParseInvocations(lastCall.parsed) = 1

RefreshAfterParseWitness ==
    /\ IsUpdate /\ lastCall.prevCalled /\ lastCall.prevParsed /\ lastCall.prevErr = ""
    /\ ~lastCall.read
    /\ analytics.TotalTurns = 2
    /\ analytics.LastFileModTime = Seen.mtime

\* The agent turns of a transcript and their token sums, from the transcript itself.
AgentTurns(msgs) == SelectSeq(msgs, LAMBDA m : m.type = "gemini")

RECURSIVE SumInput(_)
SumInput(msgs) == IF msgs = <<>> THEN 0 ELSE Head(msgs).input + SumInput(Tail(msgs))

RECURSIVE SumOutput(_)
SumOutput(msgs) == IF msgs = <<>> THEN 0 ELSE Head(msgs).output + SumOutput(Tail(msgs))

\* C7: when the modification time of the transcript differs from the stored
\* fingerprint at the time of the call and the file reads and parses, the call
\* leaves the counters of the file's content in the struct and the file's
\* modification time in the fingerprint.
ChangedFileIsReparsed ==
    (/\ IsUpdate /\ lastCall.file # NoPath
     /\ Seen.mtime # lastCall.before.LastFileModTime
     /\ Seen.readable /\ Seen.content.ok)
        => LET turns == AgentTurns(Seen.content.messages)
           IN  /\ lastCall.err = "" /\ lastCall.parsed
               /\ analytics.InputTokens = SumInput(turns)
               /\ analytics.OutputTokens = SumOutput(turns)
               /\ analytics.TotalTurns = Len(turns)
               /\ analytics.LastFileModTime = Seen.mtime

ChangedFileWitness ==
    /\ IsUpdate /\ lastCall.file # NoPath
    /\ lastCall.before.LastFileModTime # 0
    /\ lastCall.before.LastFileModTime # Seen.mtime
    /\ lastCall.before.TotalTurns = 2
    /\ analytics.TotalTurns = 1
    /\ analytics.LastFileModTime = Seen.mtime

\* C8: a call on a changed transcript (its modification time is not the stored
\* fingerprint, so the call gets to read it) that is unreadable or malformed
\* returns the read or parse error and changes nothing, fingerprint included;
\* so the next call on the same unmodified file reads it again instead of
\* hitting the cache.
FailedParseKeepsSnapshot ==
    /\ (/\ IsUpdate /\ lastCall.file # NoPath
        /\ (lastCall.before.LastFileModTime = 0
               \/ Seen.mtime # lastCall.before.LastFileModTime)
        /\ (~Seen.readable \/ ~Seen.content.ok))
          => /\ lastCall.err = (IF ~Seen.readable THEN "failed to read session file"
                                ELSE "failed to parse session for analytics")
             /\ analytics = lastCall.before
    /\ (/\ IsUpdate /\ lastCall.prevCalled
        /\ lastCall.prevErr \in {"failed to read session file",
                                 "failed to parse session for analytics"})
          => lastCall.read

FailedParseWitness ==
    /\ IsUpdate
    /\ lastCall.err = "failed to parse session for analytics"
    /\ lastCall.prevCalled
    /\ lastCall.prevErr = "failed to parse session for analytics"
    /\ lastCall.before.TotalTurns = 2
    /\ lastCall.before.LastFileModTime # 0
    /\ analytics = lastCall.before

\* C9 as stated: after a successful reparse every field of the struct is
\* determined by the transcript (and its modification time) alone: it is what
\* the same parse leaves in a fresh struct, whatever the struct held before.
SnapshotDeterminedByTranscript ==
    (IsUpdate /\ lastCall.parsed /\ lastCall.err = "")
        => analytics = StoreSession(ZeroAnalytics, Seen.content, Seen.mtime)

\* C10: after a successful parse InputTokens and OutputTokens are the sums over
\* the agent ("gemini") turns, TotalTurns is their number and, when there is an
\* agent turn, CurrentContextTokens is the input count of the last one in
\* transcript order; turns of any other type contribute nothing.
CountersAreAgentTurnSums ==
    (IsUpdate /\ lastCall.parsed /\ lastCall.err = "")
        => LET turns == AgentTurns(Seen.content.messages)
           IN  /\ analytics.InputTokens = SumInput(turns)
               /\ analytics.OutputTokens = SumOutput(turns)
               /\ analytics.TotalTurns = Len(turns)
               /\ turns # <<>> => analytics.CurrentContextTokens = turns[Len(turns)].input

CountersWitness ==
    /\ IsUpdate /\ lastCall.parsed /\ lastCall.err = ""
    /\ Len(Seen.content.messages) = 2
    /\ Seen.content.messages[1].type = "gemini"
    /\ Seen.content.messages[2].type = "user"
    /\ Seen.content.messages[1].input = 2
    /\ Seen.content.messages[2].input = 1
    /\ analytics.InputTokens = 2 /\ analytics.OutputTokens = 1
    /\ analytics.TotalTurns = 1 /\ analytics.CurrentContextTokens = 2

\* C11 as stated: after a successful parse of a transcript with an agent turn,
\* Model is the model name carried by the last agent turn in transcript order,
\* the turn whose input count is CurrentContextTokens.
ModelIsLastAgentTurnModel ==
    (IsUpdate /\ lastCall.parsed /\ lastCall.err = "")
        => LET turns == AgentTurns(Seen.content.messages)
           IN  turns # <<>> => analytics.Model = turns[Len(turns)].model

\* The files of a directory whose name matches session-*-<id8>.json.
Matching(dir, id8) ==
    {f \in FileIds : f[1] = dir /\ files[f].exists /\ files[f].id8 = id8}

\* f is one of S and no file of S was modified later.
NewestOf(f, S) == f \in S /\ \A g \in S : files[g].mtime <= files[f].mtime

\* C12: findNewestFile returns a file matching the identifier-prefix pattern
\* in the directory with the greatest modification time among the matching
\* files, never a file that does not match, and the empty path when no file
\* matches.
FindNewestFileReturnsNewestMatch ==
    lastCall.op = "findNewestFile"
        => LET matching == Matching(lastCall.dir, lastCall.id8)
           IN  IF matching = {} THEN lastCall.file = NoPath
               ELSE NewestOf(lastCall.file, matching)

\* Two matching files, the later name the older one, and a newer file of
\* another session in the same directory.
FindNewestFileWitness ==
    /\ lastCall.op = "findNewestFile" /\ lastCall.dir = 1
    /\ Matching(1, lastCall.id8) = {<<1, 1>>, <<1, 3>>}
    /\ files[<<1, 2>>].exists
    /\ files[<<1, 1>>].mtime = 2 /\ files[<<1, 3>>].mtime = 1
    /\ files[<<1, 2>>].mtime = MaxTime
    /\ lastCall.file = <<1, 1>>

\* The arguments of the last call of UpdateGeminiAnalyticsFromDisk, read
\* against the files: the expected directory's matches and the matches of
\* every project directory.
ExpectedMatches ==
    Matching(GetGeminiSessionsDir(lastCall.projectPath),
             SubSeq(lastCall.sessionID, 1, IDPrefixLen))

AllMatches ==
    UNION {Matching(d, SubSeq(lastCall.sessionID, 1, IDPrefixLen)) : d \in ProjectDirs}

ValidUpdate == IsUpdate /\ Len(lastCall.sessionID) >= IDPrefixLen

\* C13: when the expected project directory holds no matching transcript but
\* other project directories do, the call settles on a matching file of those
\* directories, and no match in any project directory was modified later.
FallbackReturnsNewestAcrossProjects ==
    (ValidUpdate /\ ExpectedMatches = {} /\ AllMatches # {})
        => NewestOf(lastCall.file, AllMatches)

\* The working directory moved; the first project directory holds an older
\* match than the second.
FallbackWitness ==
    /\ ValidUpdate /\ lastCall.projectPath = "/moved"
    /\ ExpectedMatches = {}
    /\ AllMatches = {<<1, 2>>, <<2, 1>>}
    /\ files[<<1, 2>>].mtime = 1 /\ files[<<2, 1>>].mtime = 2
    /\ lastCall.file = <<2, 1>> /\ lastCall.err = ""
    /\ <<"ReadDir", "tmp">> \in lastCall.io

\* C14: the scan of every project runs only when the expected directory holds
\* no match.  When it holds one, the call lists no directory and globs, stats
\* and reads nothing outside the expected directory, and it settles on the
\* newest match of that directory even when another project directory holds a
\* newer match.
ExpectedDirectoryWinsWithoutScan ==
    ValidUpdate
        => /\ ExpectedMatches # {}
                => /\ NewestOf(lastCall.file, ExpectedMatches)
                   /\ \A a \in lastCall.io :
                         /\ a[1] # "ReadDir"
                         /\ a[1] = "Glob"
                               => a[2] = GetGeminiSessionsDir(lastCall.projectPath)
                         /\ a[1] \in {"Stat", "ReadFile"}
                               => a[2][1] = GetGeminiSessionsDir(lastCall.projectPath)
           /\ <<"ReadDir", "tmp">> \in lastCall.io => ExpectedMatches = {}

ExpectedDirectoryWitness ==
    /\ ValidUpdate /\ lastCall.projectPath = "/work"
    /\ ExpectedMatches = {<<1, 1>>, <<1, 3>>}
    /\ <<2, 1>> \in AllMatches
    /\ files[<<1, 1>>].mtime = 1 /\ files[<<1, 3>>].mtime = 1
    /\ files[<<2, 1>>].mtime = 2
    /\ lastCall.file = <<1, 1>> /\ lastCall.err = ""
    /\ <<"Glob", 2>> \notin lastCall.io

\* C15: a call for which no project directory holds a matching transcript
\* settles on no file and leaves every field of the struct, the fingerprint
\* included, as it found it.
NotFoundChangesNothing ==
    (ValidUpdate /\ ExpectedMatches = {} /\ AllMatches = {})
        => /\ lastCall.file = NoPath /\ ~lastCall.read /\ ~lastCall.parsed
           /\ analytics = lastCall.before

\* The transcript parsed earlier is gone; a file of another session is there.
NotFoundWitness ==
    /\ ValidUpdate /\ lastCall.projectPath = "/work"
    /\ AllMatches = {}
    /\ files[<<1, 1>>].exists
    /\ lastCall.before.TotalTurns = 1 /\ lastCall.before.LastFileModTime = 2
    /\ analytics.TotalTurns = 1 /\ analytics.LastFileModTime = 2

\* C16 as stated: a call that finds no transcript in any project directory
\* returns no error.
NotFoundIsNotAnError ==
    (ValidUpdate /\ ExpectedMatches = {} /\ AllMatches = {}) => lastCall.err = ""

\* The errors that reject the arguments of a call.
ValidationErrors == {"invalid session ID"}

\* C17 as stated: a call with a session identifier shorter than 8 characters
\* or with an empty working directory returns a validation error, has made no
\* filesystem access and leaves the struct as it found it.
RejectedBeforeFilesystemAccess ==
    (IsUpdate /\ (Len(lastCall.sessionID) < IDPrefixLen \/ lastCall.projectPath = ""))
        => /\ lastCall.err \in ValidationErrors
           /\ lastCall.io = {}
           /\ analytics = lastCall.before

-----------------------------------------------------------------------------
(* Properties of Part III                                                  *)

IsGet == lastGet.op = "GetAvailableGeminiModels"

\* C18 as stated: once a fetch has succeeded, a call without override made
\* less than an hour after it returns the fetched list and calls no network;
\* a call made an hour or more after it (with the credential still present)
\* calls the network again.
FetchedListServedForAnHour ==
    (IsGet /\ env.override = <<>> /\ lastGet.prior.done)
        => IF now - lastGet.prior.at < Hour
           THEN /\ lastGet.result = lastGet.prior.models
                /\ lastGet.err = "" /\ ~lastGet.network
           ELSE env.apiKey # "" => lastGet.network

\* C19 as stated: with the credential present, a call whose fetch fails
\* returns the hardcoded default list and no error.
FetchFailureFallsBackToDefaults ==
    (IsGet /\ lastGet.network /\ lastGet.response \in FetchFailures)
        => lastGet.result = DefaultModels /\ lastGet.err = ""

\* What a returned list is measured against: the pieces of the override
\* between its commas.
Trimmed(x) == x = <<>> \/ (x[1] # " " /\ x[Len(x)] # " ")

Count(x, list) == Cardinality({i \in 1..Len(list) : list[i] = x})

Pieces == Split(env.override)

\* C20 as stated: with the override set the call returns the entries of the
\* override trimmed, in ascending order and each one once.
OverrideIsTrimmedSortedDeduplicated ==
    (IsGet /\ env.override # <<>>)
        => LET result == lastGet.result
           IN  /\ \A i \in 1..Len(result) : Trimmed(result[i])
               /\ \A i \in 1..Len(result), j \in 1..Len(result) :
                     i < j => Less(result[i], result[j])
               /\ {result[i] : i \in 1..Len(result)}
                     = {TrimSpace(Pieces[i]) : i \in 1..Len(Pieces)}

\* C20 amended: with the override set the call returns, without error and
\* without a network call, one entry per comma-separated piece of the
\* override, each trimmed of surrounding blanks, in ascending order; an entry
\* that occurs several times (or is empty) is returned as often as it occurs.
OverrideIsTrimmedAndSorted ==
    (IsGet /\ env.override # <<>>)
        => LET result == lastGet.result
           IN  /\ lastGet.err = "" /\ ~lastGet.network
               /\ Len(result) = Len(Pieces)
               /\ \A i \in 1..Len(result) : Trimmed(result[i])
               /\ \A i \in 1..Len(result), j \in 1..Len(result) :
                     i < j => ~Less(result[j], result[i])
               /\ \A i \in 1..Len(Pieces) :
                     Count(TrimSpace(Pieces[i]), result)
                        = Count(TrimSpace(Pieces[i]),
                                [k \in 1..Len(Pieces) |-> TrimSpace(Pieces[k])])

\* "m1, m2,m1" gives [m1, m1, m2].
OverrideWitness ==
    /\ IsGet
    /\ env.override = <<"m1", ",", " ", "m2", ",", "m1">>
    /\ lastGet.result = << <<"m1">>, <<"m1">>, <<"m2">> >>

\* C21: a call made while the override is not empty calls no network, whether
\* or not a credential is present and whatever the cache holds, and leaves the
\* cached list and its timestamp as it found them.
OverrideBypassesNetworkAndCache ==
    (IsGet /\ env.override # <<>>)
        => /\ ~lastGet.network
           /\ geminiModelsCache = lastGet.cacheBefore
           /\ geminiModelsLast = lastGet.lastBefore

\* The credential is present and the cache holds a list more than an hour old:
\* without the override this call would fetch.
OverrideBypassWitness ==
    /\ IsGet /\ env.override # <<>> /\ env.apiKey = "key"
    /\ Len(geminiModelsCache) = 2
    /\ now - geminiModelsLast >= Hour
    /\ ~lastGet.network

\* C30: the cached list is empty and its timestamp the zero time until a fetch
\* has succeeded, and only a call whose fetch succeeds writes them: a call that
\* returns the override list, the default list for a missing credential, the
\* cached list or an error leaves both as it found them.
CacheWrittenOnlyBySuccessfulFetch ==
    /\ ~lastGet.fetch.done => geminiModelsCache = <<>> /\ geminiModelsLast = 0
    /\ (IsGet /\ ~(lastGet.network /\ lastGet.response = "ok"))
          => /\ geminiModelsCache = lastGet.cacheBefore
             /\ geminiModelsLast = lastGet.lastBefore

\* A fetch fails while the cache holds a list more than an hour old.
CacheKeptOnErrorWitness ==
    /\ IsGet /\ lastGet.network /\ lastGet.err = "api returned status"
    /\ Len(lastGet.cacheBefore) = 2
    /\ now - lastGet.lastBefore >= Hour
    /\ geminiModelsCache = lastGet.cacheBefore
    /\ geminiModelsLast = lastGet.lastBefore

BadTimestamp(ts) == ts.layout = "bad"

\* C29: a readable, well-formed transcript whose startTime or lastUpdated
\* parses in neither layout is parsed without error: that timestamp is the zero
\* time, the other one is the instant written, and the counters are the sums
\* over the agent turns as for any transcript.  parseGeminiSessionFile treats
\* the two timestamps the same way and counts the messages.
UnparseableTimestampTolerated ==
    /\ (/\ IsUpdate /\ lastCall.file # NoPath
        /\ Seen.mtime # lastCall.before.LastFileModTime
        /\ Seen.readable /\ Seen.content.ok
        /\ (BadTimestamp(Seen.content.startTime) \/ BadTimestamp(Seen.content.lastUpdated)))
          => LET turns == AgentTurns(Seen.content.messages)
             IN  /\ lastCall.err = "" /\ lastCall.parsed
                 /\ analytics.StartTime =
                       (IF BadTimestamp(Seen.content.startTime) THEN 0
                        ELSE Seen.content.startTime.t)
                 /\ analytics.LastActive =
                       (IF BadTimestamp(Seen.content.lastUpdated) THEN 0
                        ELSE Seen.content.lastUpdated.t)
                 /\ analytics.InputTokens = SumInput(turns)
                 /\ analytics.OutputTokens = SumOutput(turns)
                 /\ analytics.TotalTurns = Len(turns)
    /\ (/\ lastCall.op = "parseGeminiSessionFile"
        /\ Seen.readable /\ Seen.content.ok
        /\ (BadTimestamp(Seen.content.startTime) \/ BadTimestamp(Seen.content.lastUpdated)))
          => /\ lastCall.err = ""
             /\ lastCall.info.StartTime =
                   (IF BadTimestamp(Seen.content.startTime) THEN 0
                    ELSE Seen.content.startTime.t)
             /\ lastCall.info.LastUpdated =
                   (IF BadTimestamp(Seen.content.lastUpdated) THEN 0
                    ELSE Seen.content.lastUpdated.t)
             /\ lastCall.info.MessageCount = Len(Seen.content.messages)

UnparseableTimestampWitness ==
    /\ IsUpdate /\ lastCall.parsed /\ lastCall.err = ""
    /\ BadTimestamp(Seen.content.startTime)
    /\ Seen.content.lastUpdated.layout = "millisZ"
    /\ Len(AgentTurns(Seen.content.messages)) = 2
    /\ lastCall.before.StartTime = 1
    /\ analytics.StartTime = 0 /\ analytics.LastActive = 2
    /\ analytics.TotalTurns = 2

-----------------------------------------------------------------------------
(* Properties of Part IV                                                   *)

\* The goroutines whose request is under way.
FetchesInFlight == {c \in Callers : callers[c].pc = "fetching"}

\* At most one request is under way, and its goroutine holds the mutex.
AtMostOneFetchInFlight ==
    /\ Cardinality(FetchesInFlight) <= 1
    /\ \A c \in FetchesInFlight : geminiModelsCacheMu = c

\* C22: at most one request is under way at any time, and a goroutine that
\* was waiting at Lock() while the fetch of another one succeeded issues no
\* request of its own and returns the cached list.
SingleFetchAndBlockedCallersUseCache ==
    /\ AtMostOneFetchInFlight
    /\ \A c \in Callers :
          callers[c].blocked
            => /\ ~callers[c].fetched
               /\ callers[c].pc = "returned"
                     => callers[c].err = "" /\ callers[c].result = geminiModelsCache

\* The goroutines between the unmarshal and the return of their call.
RefreshesUnderWay == {r \in Refreshers : refreshers[r].pc # "idle"}

\* What one call alone leaves in a zero struct for the file on disk.
SerialRefresh ==
    StoreSession(ZeroAnalytics, files[<<1, 1>>].content, files[<<1, 1>>].mtime)

\* Once every call has returned, the counters are those of a single Refresh.
FinalCountersEqualSerialRefresh ==
    RefreshesUnderWay = {} /\ analytics.LastFileModTime # 0
      => /\ analytics.InputTokens = SerialRefresh.InputTokens
         /\ analytics.OutputTokens = SerialRefresh.OutputTokens
         /\ analytics.TotalTurns = SerialRefresh.TotalTurns

\* C23: the store-reset-accumulate sequences of two calls on the same struct
\* never overlap, and once every call has returned the counters are those of
\* a single Refresh of the file (neither doubled nor partially reset).
RefreshesAreMutuallyExclusive ==
    /\ FinalCountersEqualSerialRefresh
    /\ Cardinality(RefreshesUnderWay) <= 1

-----------------------------------------------------------------------------
(* Properties of ListGeminiSessions                                        *)

\* The session files of the project directory that read and parse.
Listable(dir) ==
    {f \in FileIds : /\ f[1] = dir /\ files[f].exists
                     /\ files[f].readable /\ files[f].content.ok}

\* C31: right after ListGeminiSessions, the call returned no error; the list
\* has one entry for each file of the project's chats directory that reads
\* and parses and no other entry, each entry holding what the file parses
\* to; and no entry is followed by one with a later LastUpdated.
ListHasEveryParsedSessionNewestFirst ==
    lastCall.op = "ListGeminiSessions"
      => LET sessions == lastCall.sessions
             dir == GetGeminiSessionsDir(lastCall.projectPath)
         IN  /\ lastCall.err = ""
             /\ Len(sessions) = Cardinality(Listable(dir))
             /\ {sessions[k].Filename : k \in 1..Len(sessions)} = Listable(dir)
             /\ \A k \in 1..Len(sessions) :
                    sessions[k] = parseGeminiSessionFile(sessions[k].Filename).info
             /\ \A k \in 1..Len(sessions), l \in 1..Len(sessions) :
                    k < l => sessions[k].LastUpdated >= sessions[l].LastUpdated

\* Three files in name order: last updated at 1, malformed, last updated at
\* 2; a fourth in the other project directory.  The call does not fail and
\* the list has the third, then the first.
ListWitness ==
    /\ lastCall.op = "ListGeminiSessions" /\ lastCall.projectPath = "/work"
    /\ lastCall.err = ""
    /\ files[<<1, 2>>].exists /\ ~files[<<1, 2>>].content.ok
    /\ Len(lastCall.sessions) = 2
    /\ lastCall.sessions[1].Filename = <<1, 3>> /\ lastCall.sessions[1].LastUpdated = 2
    /\ lastCall.sessions[2].Filename = <<1, 1>> /\ lastCall.sessions[2].LastUpdated = 1
    /\ files[<<2, 1>>].exists

-----------------------------------------------------------------------------
(* Properties of a Refresh that races with a write                         *)

\* The counters of the struct are those of the transcript now on disk, and the
\* fingerprint is its modification time.
SnapshotMatchesFile(f) ==
    LET turns == AgentTurns(files[f].content.messages)
    IN  /\ analytics.LastFileModTime = files[f].mtime
        /\ analytics.InputTokens = SumInput(turns)
        /\ analytics.OutputTokens = SumOutput(turns)
        /\ analytics.TotalTurns = Len(turns)
        /\ analytics.StartTime = ParseTimestamp(files[f].content.startTime)
        /\ analytics.LastActive = ParseTimestamp(files[f].content.lastUpdated)

-----------------------------------------------------------------------------
(* Properties of Part V                                                    *)

\* C33: in GeminiModelDialog, whenever the list of models is not empty the
\* cursor is an index of it, 0 <= cursor < len(models), whatever Show calls,
\* keys and fetch results came before; Enter never indexes outside the list.
CursorWithinModels ==
    /\ Len(geminiModelDialog.models) > 0
          => /\ 0 <= geminiModelDialog.cursor
             /\ geminiModelDialog.cursor < Len(geminiModelDialog.models)
    /\ lastSelected # Panicked

\* C34: the modelSelectedMsg a command of Enter produces carries the session
\* the dialog was showing when Enter was pressed.
SelectionIsForSessionShown ==
    lastSelected.kind = "modelSelectedMsg"
        => lastSelected.sessionID = lastSelected.shown


\* C35: in NewDialog the YOLO flag is set only while gemini is the selected
\* tool: GetValuesWithYolo never returns yoloEnabled true with a command
\* other than gemini.
YoloOnlyWithGemini ==
    GetValuesWithYolo(newDialog).yoloEnabled
        => GetValuesWithYolo(newDialog).command = "gemini"

\* A key was pressed in the dialog on the screen.
KeyPressed == lastKey.key # "" /\ lastKey.before.visible

\* C36: y or space pressed with the command field focused and gemini
\* selected flips the YOLO flag; y pressed in any other focus or tool state
\* leaves the flag as it was.
YFlipsOnlyOnGeminiCommand ==
    LET before == lastKey.before
        onGemini == before.focusIndex = 2 /\ isGeminiSelected(before)
    IN  /\ (KeyPressed /\ lastKey.key \in {"y", " "} /\ onGemini)
              => newDialog.geminiYoloMode = ~before.geminiYoloMode
        /\ (KeyPressed /\ lastKey.key = "y" /\ ~onGemini)
              => newDialog.geminiYoloMode = before.geminiYoloMode

\* y on the command field with gemini selected turned the flag on.
YFlipWitness ==
    /\ KeyPressed /\ lastKey.key = "y"
    /\ lastKey.before.focusIndex = 2 /\ isGeminiSelected(lastKey.before)
    /\ ~lastKey.before.geminiYoloMode
    /\ newDialog.geminiYoloMode

\* C37: the focus is never on a field that is not shown: not on the branch
\* input (3) while worktree creation is off, not on the Claude options (4)
\* while claude is not the selected tool.
FocusOnShownField ==
    /\ newDialog.focusIndex = 3 => newDialog.worktreeEnabled
    /\ newDialog.focusIndex = 4 => isClaudeSelected(newDialog)

\* C38: with the name input focused, a single letter pressed goes to the
\* name input and the focus stays where it is.
LettersGoToName ==
    (KeyPressed /\ lastKey.before.focusIndex = 0
        /\ lastKey.key \in {"a", "j", "k", "w", "y"})
        => /\ lastKey.to = "name"
           /\ newDialog.focusIndex = 0

====
